---------------------------- MODULE Spec2Model ----------------------------
(***************************************************************************)
(* A model of the numeric pipeline of the ECG converter (main.py) and of   *)
(* the validators (v3.py, validator-10.py): channel mapping, mV -> ADC     *)
(* encoding, the binary frame format and the converter's GUI handlers.     *)
(*                                                                         *)
(* Real numbers are exact rationals <<n, d>> (d > 0, lowest terms); the    *)
(* source computes in IEEE doubles.  Times are integers in 1/100 s, the    *)
(* resolution of the trim spin boxes (setDecimals(2)).                     *)
(***************************************************************************)
EXTENDS Integers, Sequences, FiniteSets, TLC

(***************************************************************************)
(* Exact rational arithmetic.                                              *)
(***************************************************************************)
Abs(x) == IF x < 0 THEN -x ELSE x

RECURSIVE GCD(_, _)
GCD(a, b) == IF b = 0 THEN a ELSE GCD(b, a % b)

RNorm(n, d) ==
    LET g == GCD(Abs(n), Abs(d))
        s == IF d < 0 THEN -1 ELSE 1
    IN  <<(s * n) \div g, (s * d) \div g>>

Q(n) == <<n, 1>>
RNeg(a) == <<-a[1], a[2]>>
RAdd(a, b) ==
    LET g == GCD(a[2], b[2])
    IN  RNorm(a[1] * (b[2] \div g) + b[1] * (a[2] \div g), (a[2] \div g) * b[2])
RSub(a, b) == RAdd(a, RNeg(b))
RMul(a, b) ==
    LET g1 == GCD(Abs(a[1]), b[2])
        g2 == GCD(Abs(b[1]), a[2])
    IN  RNorm((a[1] \div g1) * (b[1] \div g2), (a[2] \div g2) * (b[2] \div g1))
RDiv(a, b) == RMul(a, IF b[1] < 0 THEN <<-b[2], -b[1]>> ELSE <<b[2], b[1]>>)
RLt(a, b) == a[1] * b[2] < b[1] * a[2]
RLe(a, b) == a[1] * b[2] <= b[1] * a[2]
RGt(a, b) == RLt(b, a)
RIsZero(a) == a[1] = 0
RAbs(a) == <<Abs(a[1]), a[2]>>
\* truncation toward zero, as numpy's float -> integer cast
RTrunc(a) == IF a[1] >= 0 THEN a[1] \div a[2] ELSE -((-a[1]) \div a[2])

(***************************************************************************)
(* Optional values: None is the empty tuple, Some(x) the 1-tuple.          *)
(***************************************************************************)
None == <<>>
Some(x) == <<x>>
Val(o) == o[1]

(***************************************************************************)
(* Sequence helpers.                                                       *)
(***************************************************************************)
Range(s) == {s[i] : i \in 1..Len(s)}
Min2(a, b) == IF a < b THEN a ELSE b
Max2(a, b) == IF a > b THEN a ELSE b
\* Python's s[a:b] for 0 <= a, 0 <= b (0-based, end exclusive, clamped)
Slice(s, a, b) ==
    LET lo == Min2(a, Len(s))
        hi == Min2(b, Len(s))
    IN  IF hi <= lo THEN <<>> ELSE [k \in 1..(hi - lo) |-> s[lo + k]]

(***************************************************************************)
(* Channel names are sequences of one-character strings, so that strip(),  *)
(* upper() and replace('A', '') are computed, not assumed.                 *)
(***************************************************************************)
LowerCase == <<"a","b","c","d","e","f","g","h","i","j","k","l","m",
               "n","o","p","q","r","s","t","u","v","w","x","y","z">>
UpperCase == <<"A","B","C","D","E","F","G","H","I","J","K","L","M",
               "N","O","P","Q","R","S","T","U","V","W","X","Y","Z">>
WhiteSpace == {" ", "\t", "\n"}

UpperMap == [i \in 1..Len(LowerCase) |-> UpperCase[i]]
LowerIndex == [c \in Range(LowerCase) |-> CHOOSE i \in 1..Len(LowerCase) : LowerCase[i] = c]
UpperChar(c) == IF c \in DOMAIN LowerIndex THEN UpperMap[LowerIndex[c]] ELSE c
StrUpper(s) == [i \in 1..Len(s) |-> UpperChar(s[i])]

RECURSIVE LStrip(_)
LStrip(s) == IF s # <<>> /\ Head(s) \in WhiteSpace THEN LStrip(Tail(s)) ELSE s
RECURSIVE RStrip(_)
RStrip(s) ==
    IF s # <<>> /\ s[Len(s)] \in WhiteSpace THEN RStrip(SubSeq(s, 1, Len(s) - 1)) ELSE s
StrStrip(s) == LStrip(RStrip(s))

RECURSIVE StrRemove(_, _)
StrRemove(s, c) ==
    IF s = <<>> THEN <<>>
    ELSE IF Head(s) = c THEN StrRemove(Tail(s), c)
    ELSE <<Head(s)>> \o StrRemove(Tail(s), c)

CHANNELS_12LEAD ==
    << <<"I">>, <<"I","I">>, <<"I","I","I">>, <<"a","V","R">>, <<"a","V","L">>,
       <<"a","V","F">>, <<"V","1">>, <<"V","2">>, <<"V","3">>, <<"V","4">>,
       <<"V","5">>, <<"V","6">> >>
CHANNELS_10LEAD ==
    << <<"R","A">>, <<"L","A">>, <<"L","L">>, <<"R","L">>, <<"V","1">>, <<"V","2">>,
       <<"V","3">>, <<"V","4">>, <<"V","5">>, <<"V","6">> >>
MLII == <<"M","L","I","I">>
MLI == <<"M","L","I">>

(***************************************************************************)
(* ESP32 ADC configuration (converter and validators use the same values). *)
(***************************************************************************)
adc_resolution == 4095
vcc == <<33, 10>>
offset_voltage == <<33, 20>>
ValidatorGain == 1000
DefaultGain == 1000
max_channels == 12


(***************************************************************************)
(* State.  The converter's fields and widgets keep their names in main.py. *)
(***************************************************************************)
VARIABLES
    ecg_mode,           \* self.ecg_mode: "12-lead" | "10-lead"
    electrode_data,     \* self.electrode_data: None | Some(rows of 10 rationals)
    conversion_errors,  \* self.conversion_errors: set of <<lead, error>>
    sample_rate,        \* self.sample_rate (Hz)
    gain,               \* self.gain
    record,             \* self.record: None | Some([sig_name |-> names])
    signal,             \* self.signal: None | Some(rows of rationals, mV)
    signal_trimmed,     \* self.signal_trimmed
    trim_start,         \* self.trim_start (1/100 s)
    trim_end,           \* self.trim_end   (1/100 s)
    clipping_warnings,  \* self.clipping_warnings: sequence of warnings
    start_spinbox,      \* [value, maximum] (1/100 s)
    end_spinbox,        \* [value, maximum] (1/100 s)
    convert_button,     \* the button's enabled flag
    output_file,        \* None | Some(bytes of the file the last conversion wrote)
    conversion,         \* None | Some(result of the last convert_to_binary)
    ret,                \* the last direct call of a method and what it returned
    rev_bin,            \* None | Some(bytes): the validators' reference file
    reference_data,     \* validator: self.reference_data, None | Some(channels)
    full_data,          \* validator: the codes parsed by load_reference_binary
    load_error,         \* validator: whether load_reference_binary raised
    csv_files,          \* the CSV files of the signal folder: channel -> 'Volt' column
    time_reference,     \* validator: self.time_reference, None | Some(times in s)
    measured_data,      \* validator: self.measured_data, channel -> samples (V)
    time_measured,      \* validator: self.time_measured, channel -> times (s)
    measured_sample_rate,   \* validator: self.measured_sample_rate (Hz)
    current_channel,    \* validator: self.current_channel (0..9)
    time_offset,        \* validator: self.time_offset (s)
    scale,              \* validator: scale_spinbox.value()
    signal_offset,      \* validator: signal_offset_spinbox.value() (V)
    labels,             \* validator: the texts of the five metric labels
    validator_gain,     \* validator: self.gain
    validator_offset_voltage,   \* validator: self.offset_voltage (V)
    slot_exception      \* validator: an exception has left a slot uncaught

convVars ==
    <<ecg_mode, electrode_data, conversion_errors, sample_rate, gain, record, signal,
      signal_trimmed, trim_start, trim_end, clipping_warnings, start_spinbox,
      end_spinbox, convert_button, output_file, conversion>>
metricVars ==
    <<csv_files, time_reference, measured_data, time_measured, measured_sample_rate,
      current_channel, time_offset, scale, signal_offset, labels, validator_gain,
      validator_offset_voltage, slot_exception>>
valVars == <<rev_bin, reference_data, full_data, load_error, metricVars>>
vars == <<convVars, ret, valVars>>

\* The converter object as one value, so that handlers compose as the code calls them.
Self ==
    [ecg_mode |-> ecg_mode, electrode_data |-> electrode_data,
     conversion_errors |-> conversion_errors, sample_rate |-> sample_rate,
     gain |-> gain, record |-> record, signal |-> signal,
     signal_trimmed |-> signal_trimmed, trim_start |-> trim_start,
     trim_end |-> trim_end, clipping_warnings |-> clipping_warnings,
     start_spinbox |-> start_spinbox, end_spinbox |-> end_spinbox,
     convert_button |-> convert_button, output_file |-> output_file,
     conversion |-> conversion]

SetSelf(s) ==
    /\ ecg_mode' = s.ecg_mode
    /\ electrode_data' = s.electrode_data
    /\ conversion_errors' = s.conversion_errors
    /\ sample_rate' = s.sample_rate
    /\ gain' = s.gain
    /\ record' = s.record
    /\ signal' = s.signal
    /\ signal_trimmed' = s.signal_trimmed
    /\ trim_start' = s.trim_start
    /\ trim_end' = s.trim_end
    /\ clipping_warnings' = s.clipping_warnings
    /\ start_spinbox' = s.start_spinbox
    /\ end_spinbox' = s.end_spinbox
    /\ convert_button' = s.convert_button
    /\ output_file' = s.output_file
    /\ conversion' = s.conversion

\* ECGToBinaryConverter.__init__ and create_control_panel
SpinBoxMaximum == 999900
InitSelf ==
    [ecg_mode |-> "12-lead", electrode_data |-> None, conversion_errors |-> {},
     sample_rate |-> 360, gain |-> DefaultGain, record |-> None, signal |-> None,
     signal_trimmed |-> None, trim_start |-> 0, trim_end |-> 0,
     clipping_warnings |-> <<>>,
     start_spinbox |-> [value |-> 0, maximum |-> SpinBoxMaximum],
     end_spinbox |-> [value |-> 0, maximum |-> SpinBoxMaximum],
     convert_button |-> FALSE, output_file |-> None, conversion |-> None]

(***************************************************************************)
(* map_channels_to_standard                                                *)
(***************************************************************************)
ZeroRow(n) == [j \in 1..n |-> Q(0)]
Zeros(rows, cols) == [k \in 1..rows |-> ZeroRow(cols)]
Column(m, j) == [k \in 1..Len(m) |-> m[k][j]]
SetColumn(m, j, col) == [k \in 1..Len(m) |-> [m[k] EXCEPT ![j] = col[k]]]

\* std_ch.upper() and std_normalized.replace('A', '') of every target name
StdNormalized == [j \in 1..Len(CHANNELS_12LEAD) |-> StrUpper(CHANNELS_12LEAD[j])]
StdWithoutA == [j \in 1..Len(CHANNELS_12LEAD) |-> StrRemove(StdNormalized[j], "A")]

\* the first comparison alone, without 'A' removal and aliases, a variant to
\* compare against
ChannelMatchesExact(ch_normalized, j) == ch_normalized = StdNormalized[j]

\* the condition of the inner loop, for a normalized source name and target slot j
ChannelMatches(ch_normalized, j) ==
    \/ ch_normalized = StdNormalized[j]
    \/ ch_normalized = StdWithoutA[j]
    \/ (ch_normalized = MLII /\ StdNormalized[j] = <<"I", "I">>)
    \/ (ch_normalized = MLI /\ StdNormalized[j] = <<"I">>)

\* the inner loop: the first target slot j..12 the name matches (1-based), or 0
RECURSIVE FirstSlot(_, _)
FirstSlot(ch_normalized, j) ==
    IF j > Len(CHANNELS_12LEAD) THEN 0
    ELSE IF ChannelMatches(ch_normalized, j) THEN j
    ELSE FirstSlot(ch_normalized, j + 1)

TargetSlot(ch_name) == FirstSlot(StrUpper(StrStrip(ch_name)), 1)

\* an unmatched name written through index -1 (the last slot), a variant to
\* compare against
AssignSlotOrLast(mapped_signal, j, signal_to_map, i) ==
    SetColumn(mapped_signal, IF j = 0 THEN 12 ELSE j, Column(signal_to_map, i))

\* a slot that is written once and kept, a variant to compare against
AssignSlotKeepFirst(mapped_signal, j, signal_to_map, i) ==
    IF j = 0 THEN mapped_signal
    ELSE IF \E k \in 1..Len(mapped_signal) : ~RIsZero(mapped_signal[k][j])
    THEN mapped_signal
    ELSE SetColumn(mapped_signal, j, Column(signal_to_map, i))

\* mapped_signal[:, j] = signal_to_map[:, i] when the name matched slot j
AssignSlot(mapped_signal, j, signal_to_map, i) ==
    IF j = 0 THEN mapped_signal
    ELSE SetColumn(mapped_signal, j, Column(signal_to_map, i))

\* the outer loop over the available channels i..n
RECURSIVE MapLoop(_, _, _, _)
MapLoop(available_channels, signal_to_map, i, mapped_signal) ==
    IF i > Len(available_channels) THEN mapped_signal
    ELSE MapLoop(available_channels, signal_to_map, i + 1,
                 AssignSlot(mapped_signal, TargetSlot(available_channels[i]),
                            signal_to_map, i))

SignalToMap(s) == IF s.signal_trimmed # None THEN Val(s.signal_trimmed) ELSE Val(s.signal)

MapSignal(rec, signal_to_map) ==
    IF rec = None THEN Zeros(Len(signal_to_map), 12)
    ELSE MapLoop(Val(rec).sig_name, signal_to_map, 1, Zeros(Len(signal_to_map), 12))

\* a mapping that gives up in 10-lead mode, a variant to compare against
MapOutsideTenLead(s) ==
    IF s.ecg_mode = "10-lead" THEN Zeros(Len(SignalToMap(s)), 12)
    ELSE MapSignal(s.record, SignalToMap(s))

map_channels_to_standard(s) == MapSignal(s.record, SignalToMap(s))

(***************************************************************************)
(* convert_to_10lead                                                       *)
(*                                                                         *)
(* Values a method names once and uses several times are parameters of a   *)
(* helper operator here, so that each is written once.                     *)
(***************************************************************************)
RECURSIVE RSum(_)
RSum(col) == IF col = <<>> THEN Q(0) ELSE RAdd(Head(col), RSum(Tail(col)))

\* np.mean: None stands for nan, the mean of an empty array
Mean(col) == IF col = <<>> THEN None ELSE Some(RDiv(RSum(col), Q(Len(col))))

ErrorThreshold == <<1, 20>>     \* 0.05 mV

RA_of(lead_I, lead_II) == RDiv(RNeg(RAdd(lead_I, lead_II)), Q(3))
\* LA computed with the coefficients of LL, a variant to compare against
LAWithSwappedLeads(lead_I, lead_II) == RDiv(RSub(RMul(Q(2), lead_II), lead_I), Q(3))
LA_of(lead_I, lead_II) == RDiv(RSub(RMul(Q(2), lead_I), lead_II), Q(3))
LL_of(lead_I, lead_II) == RDiv(RSub(RMul(Q(2), lead_II), lead_I), Q(3))

\* one row of self.electrode_data from one row of the mapped signal
ElectrodeRow(m) ==
    <<RA_of(m[1], m[2]), LA_of(m[1], m[2]), LL_of(m[1], m[2]), Q(0),
      m[7], m[8], m[9], m[10], m[11], m[12]>>
Electrodes(mapped_signal) ==
    [k \in 1..Len(mapped_signal) |-> ElectrodeRow(mapped_signal[k])]

\* the residual with lead_III_calc = LA - LL, a variant to compare against
LeadIIIResidualReversed(m) ==
    RAbs(RSub(RSub(LA_of(m[1], m[2]), LL_of(m[1], m[2])), m[3]))

\* |lead_III_calc - lead_III| for one row, lead_III_calc = LL - LA
LeadIIIResidual(m) == RAbs(RSub(RSub(LL_of(m[1], m[2]), LA_of(m[1], m[2])), m[3]))
\* error = np.mean(np.abs(lead_III_calc - lead_III))
LeadIIIError(mapped_signal) ==
    Mean([k \in 1..Len(mapped_signal) |-> LeadIIIResidual(mapped_signal[k])])

\* nan > 0.05 is False
ErrorExceeds(error) == IF error = None THEN FALSE ELSE RGt(Val(error), ErrorThreshold)

\* errors that are only ever added, a variant to compare against
ErrorsKept(errors, error) ==
    IF ErrorExceeds(error)
    THEN {e \in errors : e[1] # "Lead III"} \cup {<<"Lead III", Val(error)>>}
    ELSE errors

\* self.conversion_errors after the threshold test
ErrorsAfter(errors, error) ==
    IF ErrorExceeds(error)
    THEN {e \in errors : e[1] # "Lead III"} \cup {<<"Lead III", Val(error)>>}
    ELSE {}

Store10Lead(s, mapped_signal) ==
    [s EXCEPT !.conversion_errors = ErrorsAfter(s.conversion_errors,
                                                LeadIIIError(mapped_signal)),
              !.electrode_data = Some(Electrodes(mapped_signal))]

convert_to_10lead(s) ==
    IF s.signal_trimmed = None THEN s
    ELSE Store10Lead(s, map_channels_to_standard(s))

(***************************************************************************)
(* check_gain_warnings                                                     *)
(***************************************************************************)
RMinOf(S) == CHOOSE x \in S : \A y \in S : RLe(x, y)
RMaxOf(S) == CHOOSE x \in S : \A y \in S : RLe(y, x)
\* signal_to_check[signal_to_check != 0], as a set
NonZero(m) == {m[k][j] : k \in 1..Len(m), j \in 1..(IF m = <<>> THEN 0 ELSE Len(m[1]))}
                 \ {Q(0)}

VoltageAfterGain(x, g) == RAdd(RDiv(RMul(x, Q(g)), Q(1000)), offset_voltage)

RangeOverflow(non_zero_data, g) ==
    IF non_zero_data = {} THEN FALSE
    ELSE \/ RGt(VoltageAfterGain(RMaxOf(non_zero_data), g), vcc)
         \/ RLt(VoltageAfterGain(RMinOf(non_zero_data), g), Q(0))

\* voltage_overflow for the data signal_to_check under gain g
VoltageOverflow(signal_to_check, g) == RangeOverflow(NonZero(signal_to_check), g)

SignalToCheck(s) ==
    IF s.ecg_mode = "10-lead" /\ s.electrode_data # None
    THEN Val(s.electrode_data)
    ELSE map_channels_to_standard(s)

check_gain_warnings(s) ==
    IF s.signal_trimmed = None THEN [s EXCEPT !.convert_button = FALSE]
    ELSE [s EXCEPT !.convert_button = ~VoltageOverflow(SignalToCheck(s), s.gain)]

(***************************************************************************)
(* convert_mv_to_adc, convert_adc_to_voltage, and the validators' inverse  *)
(***************************************************************************)
\* the three steps of the forward chain for one sample
AdcValue(x, g) ==
    RDiv(RMul(RAdd(RDiv(RMul(x, Q(g)), Q(1000)), offset_voltage), Q(adc_resolution)), vcc)
AdcValues(signal_mv, g) == [k \in 1..Len(signal_mv) |-> AdcValue(signal_mv[k], g)]

\* np.maximum(x, 0): the lower clamp alone, a variant to compare against
ClipLowOnly(x) == IF RLt(x, Q(0)) THEN Q(0) ELSE x

\* np.clip(x, 0, adc_resolution)
Clip(x) ==
    IF RLt(x, Q(0)) THEN Q(0)
    ELSE IF RGt(x, Q(adc_resolution)) THEN Q(adc_resolution)
    ELSE x
ClipAll(adc_values) == [k \in 1..Len(adc_values) |-> Clip(adc_values[k])]

\* clipped_low = np.sum(adc_values < 0), clipped_high = np.sum(adc_values > resolution)
ClippedLow(adc_values) ==
    Cardinality({k \in 1..Len(adc_values) : RLt(adc_values[k], Q(0))})
ClippedHigh(adc_values) ==
    Cardinality({k \in 1..Len(adc_values) : RGt(adc_values[k], Q(adc_resolution))})

\* f"Clipping detected: {clipped_low} samples < 0, {clipped_high} samples > {resolution}"
ClippingWarning(clipped_low, clipped_high) ==
    [kind |-> "Clipping detected", low |-> clipped_low, high |-> clipped_high,
     resolution |-> adc_resolution]

\* the append without the membership test, a variant to compare against
TrackClippingAlways(warnings, clipped_low, clipped_high) ==
    IF clipped_low > 0 \/ clipped_high > 0
    THEN Append(warnings, ClippingWarning(clipped_low, clipped_high))
    ELSE warnings

\* if clipped_low > 0 or clipped_high > 0: append the warning unless it is in the list
TrackClipping(warnings, clipped_low, clipped_high) ==
    IF (clipped_low > 0 \/ clipped_high > 0)
       /\ ClippingWarning(clipped_low, clipped_high) \notin Range(warnings)
    THEN Append(warnings, ClippingWarning(clipped_low, clipped_high))
    ELSE warnings

\* the clamp and the warning applied whatever the flag, a variant to compare against
ClipAndTrackAlways(warnings, adc_values, apply_clipping) ==
    [adc_values |-> ClipAll(adc_values),
     clipping_warnings |->
         TrackClipping(warnings, ClippedLow(adc_values), ClippedHigh(adc_values))]

\* if apply_clipping: count, warn and clamp; otherwise the values as computed
ClipAndTrack(warnings, adc_values, apply_clipping) ==
    IF apply_clipping
    THEN [adc_values |-> ClipAll(adc_values),
          clipping_warnings |->
              TrackClipping(warnings, ClippedLow(adc_values), ClippedHigh(adc_values))]
    ELSE [adc_values |-> adc_values, clipping_warnings |-> warnings]

\* returns the values and self.clipping_warnings as the call leaves it
convert_mv_to_adc(warnings, g, signal_mv, apply_clipping) ==
    ClipAndTrack(warnings, AdcValues(signal_mv, g), apply_clipping)

convert_adc_to_voltage(x) == RDiv(RMul(x, vcc), Q(adc_resolution))

\* the inverse without the offset step, a variant to compare against
AdcToMvNoOffset(x, g) ==
    RDiv(RMul(RDiv(RMul(x, vcc), Q(adc_resolution)), Q(1000)), Q(g))

\* ECGSignalValidator10.adc_to_mv (identical in v3.py), for one value
adc_to_mv(x, g) ==
    RDiv(RMul(RSub(RDiv(RMul(x, vcc), Q(adc_resolution)), offset_voltage), Q(1000)), Q(g))

\* adc_to_mv with the validator's self.offset_voltage and self.gain as they are
\* when it is called
AdcToMvOf(x, g, offset) ==
    RDiv(RMul(RSub(RDiv(RMul(x, vcc), Q(adc_resolution)), offset), Q(1000)), Q(g))

(***************************************************************************)
(* check_data_warnings                                                     *)
(***************************************************************************)
AmplitudeLimit == Q(9)      \* the +-9 mV plausibility bound

\* no channel taken as empty, a variant to compare against
NoChannelEmpty(mapped_signal, i) == FALSE

IsEmptyChannel(mapped_signal, i) ==
    \A k \in 1..Len(mapped_signal) : RIsZero(mapped_signal[k][i])
ExceedsRange(mapped_signal, i) ==
    \E k \in 1..Len(mapped_signal) :
        \/ RGt(mapped_signal[k][i], AmplitudeLimit)
        \/ RLt(mapped_signal[k][i], RNeg(AmplitudeLimit))

\* the names[i..] whose flag is set, in order
RECURSIVE SelectFlagged(_, _, _)
SelectFlagged(names, flags, i) ==
    IF i > Len(names) THEN <<>>
    ELSE (IF flags[i] THEN <<names[i]>> ELSE <<>>) \o SelectFlagged(names, flags, i + 1)

EmptyFlags(mapped_signal) == [i \in 1..12 |-> IsEmptyChannel(mapped_signal, i)]
ExceedFlags(mapped_signal) ==
    [i \in 1..12 |-> ~IsEmptyChannel(mapped_signal, i) /\ ExceedsRange(mapped_signal, i)]

RangeWarnings(exceeding) ==
    [k \in 1..Len(exceeding) |->
        [kind |-> "Signal exceeds +-9mV range", channels |-> <<exceeding[k]>>]]
EmptyWarnings(empty_channels) ==
    IF empty_channels # <<>>
    THEN <<[kind |-> "Empty channels detected", channels |-> empty_channels]>>
    ELSE <<>>

check_data_warnings(mapped_signal) ==
    RangeWarnings(SelectFlagged(CHANNELS_12LEAD, ExceedFlags(mapped_signal), 1))
    \o EmptyWarnings(SelectFlagged(CHANNELS_12LEAD, EmptyFlags(mapped_signal), 1))

(***************************************************************************)
(* convert_to_binary                                                       *)
(***************************************************************************)
\* the same value packed as '>H' (high byte first), a variant to compare against
PackHighFirst(value) == <<value \div 256, value % 256>>

\* struct.pack('<H', value)
PackH(value) == <<value % 256, value \div 256>>

\* the write loop: samples in order, channels 0..11 in order within a sample
RECURSIVE WriteChannels(_, _)
WriteChannels(row, channel_idx) ==
    IF channel_idx > Len(row) THEN <<>>
    ELSE PackH(row[channel_idx]) \o WriteChannels(row, channel_idx + 1)
RECURSIVE WriteSamples(_, _)
WriteSamples(adc_signal, sample_idx) ==
    IF sample_idx > Len(adc_signal) THEN <<>>
    ELSE WriteChannels(adc_signal[sample_idx], 1) \o WriteSamples(adc_signal, sample_idx + 1)
WriteBinary(adc_signal) == WriteSamples(adc_signal, 1)

\* .astype(np.uint16) of a column of clipped values
AsUint16(col) == [k \in 1..Len(col) |-> RTrunc(col[k]) % 65536]

SetIntColumn(m, j, col) == [k \in 1..Len(m) |-> [m[k] EXCEPT ![j] = col[k]]]
ZerosInt(rows, cols) == [k \in 1..rows |-> [j \in 1..cols |-> 0]]

\* adc_signal[:, slot] = convert_mv_to_adc(...).astype(np.uint16), r the call's result
StoreChannel(acc, slot, r) ==
    [adc_signal |-> SetIntColumn(acc.adc_signal, slot, AsUint16(r.adc_values)),
     clipping_warnings |-> r.clipping_warnings]

\* 12-lead mode: the loop over channels i..12; acc = [adc_signal, clipping_warnings]
RECURSIVE Encode12(_, _, _, _)
Encode12(mapped_signal, g, i, acc) ==
    IF i > 12 THEN acc
    ELSE IF IsEmptyChannel(mapped_signal, i)
    THEN Encode12(mapped_signal, g, i + 1, acc)
    ELSE Encode12(mapped_signal, g, i + 1,
                  StoreChannel(acc, i,
                      convert_mv_to_adc(acc.clipping_warnings, g,
                                        Column(mapped_signal, i), TRUE)))

\* electrode e written to slot e, without the two padding slots, a variant to
\* compare against
TenLeadSlotPacked(e) == e

\* 10-lead mode: electrodes 0..3 to slots 0..3, electrodes 4..9 to slots 6..11
TenLeadSlot(e) == IF e <= 4 THEN e ELSE e + 2
RECURSIVE Encode10(_, _, _, _)
Encode10(electrodes, g, e, acc) ==
    IF e > 10 THEN acc
    ELSE Encode10(electrodes, g, e + 1,
                  StoreChannel(acc, TenLeadSlot(e),
                      convert_mv_to_adc(acc.clipping_warnings, g,
                                        Column(electrodes, e), TRUE)))

\* f"Conversion error - {lead}: {error:.3f} mV": the error in 1/1000 mV, rounded
Round3(error) == (2 * 1000 * error[1] + error[2]) \div (2 * error[2])
ConversionErrorWarning(e) ==
    [kind |-> "Conversion error", lead |-> e[1], error |-> Round3(e[2])]
ConversionErrorWarnings(errors) ==
    IF errors = {} THEN <<>>
    ELSE <<ConversionErrorWarning(CHOOSE x \in errors : TRUE)>>

\* adc_signal = np.zeros((rows, 12), dtype=np.uint16); self.clipping_warnings = []
EncodeStart(rows) == [adc_signal |-> ZerosInt(rows, 12), clipping_warnings |-> <<>>]

WithDataWarnings(acc, data_warnings) ==
    [adc_signal |-> acc.adc_signal, clipping_warnings |-> acc.clipping_warnings,
     data_warnings |-> data_warnings]

Encoded12(mapped_signal, g) ==
    WithDataWarnings(Encode12(mapped_signal, g, 1, EncodeStart(Len(mapped_signal))),
                     check_data_warnings(mapped_signal))
Encoded10(electrodes, g, errors) ==
    WithDataWarnings(Encode10(electrodes, g, 1, EncodeStart(Len(electrodes))),
                     ConversionErrorWarnings(errors))

\* what the conversion has encoded when it reaches the write
Encoded(s) ==
    IF s.ecg_mode = "12-lead"
    THEN Encoded12(map_channels_to_standard(s), s.gain)
    ELSE Encoded10(Val(s.electrode_data), s.gain, s.conversion_errors)

\* the status without the warnings suffix, a variant to compare against
StatusWithoutSuffix(file_size, expected_size, all_warnings) ==
    IF file_size = expected_size THEN "Success" ELSE "Size mismatch"

StatusText(file_size, expected_size, all_warnings) ==
    IF file_size = expected_size
    THEN (IF all_warnings # <<>> THEN "Success (with warnings)" ELSE "Success")
    ELSE (IF all_warnings # <<>> THEN "Size mismatch (with warnings)" ELSE "Size mismatch")

\* the history item and the info panel text of a conversion
ConversionResult(s, adc_signal, file_size, all_warnings) ==
    \* np.max of an empty array raises after the file was written
    IF adc_signal = <<>>
    THEN [status |-> "Error", warnings |-> <<>>, samples |-> 0, file_size |-> 0,
          mode |-> s.ecg_mode, adc_signal |-> adc_signal]
    ELSE [status |-> StatusText(file_size, Len(adc_signal) * 12 * 2, all_warnings),
          warnings |-> all_warnings, samples |-> Len(adc_signal),
          file_size |-> file_size, mode |-> s.ecg_mode, adc_signal |-> adc_signal]

WriteAndReport(s, enc, bytes) ==
    [s EXCEPT !.clipping_warnings = enc.clipping_warnings,
              !.output_file = Some(bytes),
              !.conversion = Some(ConversionResult(s, enc.adc_signal, Len(bytes),
                                      enc.data_warnings \o enc.clipping_warnings))]

ConvertEncoded(s, enc) == WriteAndReport(s, enc, WriteBinary(enc.adc_signal))

convert_to_binary(s) ==
    IF s.signal_trimmed = None THEN s
    ELSE IF s.ecg_mode = "10-lead" /\ s.electrode_data = None
    THEN [s EXCEPT !.clipping_warnings = <<>>]
    ELSE ConvertEncoded(s, Encoded(s))

(***************************************************************************)
(* Spin boxes (QDoubleSpinBox, minimum 0): a set value is clamped, and     *)
(* valueChanged is emitted only when the value changes.                    *)
(***************************************************************************)
Clamp(v, maximum) == Max2(0, Min2(v, maximum))
TrimStep == 10      \* the 0.1 s added to trim_start, in 1/100 s

(***************************************************************************)
(* update_trim (also the valueChanged slot of both spin boxes)             *)
(***************************************************************************)
\* int(t * self.sample_rate) for t in 1/100 s
SampleIndex(t, fs) == (t * fs) \div 100

TrimSignal(s) ==
    [s EXCEPT !.signal_trimmed =
        Some(Slice(Val(s.signal), SampleIndex(s.trim_start, s.sample_rate),
                   SampleIndex(s.trim_end, s.sample_rate)))]

Reconvert10(s) == IF s.ecg_mode = "10-lead" THEN convert_to_10lead(s) ELSE s

\* the trim without the reconversion, a variant to compare against
TrimBodyWithoutReconvert(s) == check_gain_warnings(TrimSignal(s))

\* update_trim from "Calculate sample indices" on
TrimBody(s) == check_gain_warnings(Reconvert10(TrimSignal(s)))

RECURSIVE update_trim(_)

\* a widget value went from old to new: valueChanged runs update_trim when they differ
Emit(old, new, s) == IF new # old THEN update_trim(s) ELSE s

\* self.trim_end = self.trim_start + 0.1; self.end_spinbox.setValue(self.trim_end)
FixTrimEnd(s, new_end) ==
    Emit(s.end_spinbox.value, Clamp(new_end, s.end_spinbox.maximum),
         [s EXCEPT !.trim_end = new_end,
                   !.end_spinbox.value = Clamp(new_end, s.end_spinbox.maximum)])

EnsureValidRange(s) ==
    IF s.trim_end <= s.trim_start THEN FixTrimEnd(s, s.trim_start + TrimStep) ELSE s

update_trim(s) ==
    IF s.signal = None THEN s
    ELSE TrimBody(EnsureValidRange([s EXCEPT !.trim_start = s.start_spinbox.value,
                                             !.trim_end = s.end_spinbox.value]))

\* spinbox.setMaximum(m) and spinbox.setValue(v), with the slot they may trigger
SetStartMaximum(s, m) ==
    Emit(s.start_spinbox.value, Clamp(s.start_spinbox.value, m),
         [s EXCEPT !.start_spinbox =
             [value |-> Clamp(s.start_spinbox.value, m), maximum |-> m]])
SetEndMaximum(s, m) ==
    Emit(s.end_spinbox.value, Clamp(s.end_spinbox.value, m),
         [s EXCEPT !.end_spinbox =
             [value |-> Clamp(s.end_spinbox.value, m), maximum |-> m]])
SetEndValue(s, x) ==
    Emit(s.end_spinbox.value, Clamp(x, s.end_spinbox.maximum),
         [s EXCEPT !.end_spinbox.value = Clamp(x, s.end_spinbox.maximum)])
SetStartValue(s, x) ==
    Emit(s.start_spinbox.value, Clamp(x, s.start_spinbox.maximum),
         [s EXCEPT !.start_spinbox.value = Clamp(x, s.start_spinbox.maximum)])

(***************************************************************************)
(* load_record, change_gain, change_ecg_mode                               *)
(***************************************************************************)
\* len(self.signal) / self.sample_rate, in 1/100 s
Duration(rec) == (Len(rec.p_signal) * 100) \div rec.fs

\* load_record up to "Reset trim parameters"
LoadFields(s, rec) ==
    [s EXCEPT !.clipping_warnings = <<>>,
              !.conversion_errors = {},
              !.record = Some([record_name |-> rec.record_name,
                               sig_name |-> rec.sig_name]),
              !.signal = Some(rec.p_signal),
              !.sample_rate = rec.fs,
              !.trim_start = 0,
              !.trim_end = Duration(rec)]

\* "Update trim spinboxes"
UpdateSpinBoxes(s, duration) ==
    SetEndValue(SetEndMaximum(SetStartMaximum(s, duration), duration), duration)

EnableConvert(s) == [s EXCEPT !.convert_button = TRUE]

\* rec: what wfdb.rdrecord returns: [record_name, sig_name, p_signal, fs]
load_record(s, rec) ==
    EnableConvert(Reconvert10(update_trim(UpdateSpinBoxes(LoadFields(s, rec),
                                                          Duration(rec)))))

ClearClipping(s) == [s EXCEPT !.clipping_warnings = <<>>]
change_gain(s, value) == ClearClipping(check_gain_warnings([s EXCEPT !.gain = value]))

change_ecg_mode(s, index) ==
    IF index = 0 THEN [s EXCEPT !.ecg_mode = "12-lead"]
    ELSE IF s.signal_trimmed # None
    THEN convert_to_10lead([s EXCEPT !.ecg_mode = "10-lead"])
    ELSE [s EXCEPT !.ecg_mode = "10-lead"]

ModeIndex(mode) == IF mode = "12-lead" THEN 0 ELSE 1

(***************************************************************************)
(* The records of the sample folder (what wfdb.rdrecord returns), in mV.   *)
(***************************************************************************)
F(n, d) == RNorm(n, d)
\* a full twelve-lead record with III = II - I
RecordTwelve ==
    [record_name |-> "twelve", fs |-> 10,
     sig_name |-> CHANNELS_12LEAD,
     p_signal |->
        << <<F(3,10), F(9,10), F(6,10), F(-6,10), F(-3,20), F(3,4),
             F(-1,5), F(1,10), F(2,5), F(7,10), F(3,5), F(1,2)>>,
           <<F(1,2), F(1,1), F(1,2), F(-3,4), F(0,1), F(3,4),
             F(-3,10), F(1,5), F(1,2), F(4,5), F(7,10), F(3,5)>> >>]

\* odd names: padded lower case, 'VR', an unknown name, two sources for slot II,
\* and a Lead III that disagrees with II - I in the first sample
RecordOdd ==
    [record_name |-> "odd", fs |-> 10,
     sig_name |-> << <<" ","i","i"," ">>, <<"V","R">>, <<"X","Y","Z">>, MLII,
                     <<"I","I","I">> >>,
     p_signal |-> << <<F(1,1), F(-1,2), F(5,1), F(3,2), F(1,1)>>,
                     <<F(1,1), F(-1,1), F(5,1), F(1,1), F(1,1)>> >>]

\* large amplitudes and an all-zero channel; 2 samples at 8 Hz are 0.25 s, a
\* duration between two steps of the trim spin boxes
RecordBig ==
    [record_name |-> "big", fs |-> 8,
     sig_name |-> << <<"I">>, <<"I","I">>, <<"V","1">> >>,
     p_signal |-> << <<F(10,1), F(-10,1), F(0,1)>>,
                     <<F(1,10), F(1,5), F(0,1)>> >>]

Records == {RecordTwelve, RecordOdd, RecordBig}

\* the values the user sets
GainValues == {100, 1000}
MaxTrim == 2
TrimValues == {TrimStep * k : k \in 0..MaxTrim}

(***************************************************************************)
(* The converter application.                                              *)
(***************************************************************************)
\* "SNR: -- dB", "MSE: --", ...: the label texts set by create_control_panel
InitialLabels ==
    [snr |-> [state |-> "--", value |-> <<0, 1>>],
     mse |-> [state |-> "--", value |-> <<0, 1>>],
     peak_error |-> [state |-> "--", value |-> <<0, 1>>],
     thd |-> [state |-> "--", value |-> <<0, 1>>],
     correlation |-> [state |-> "--", value |-> <<0, 1>>]]

\* the validator as __init__ sets its fields, with no file in the signal folder
ValIdle ==
    /\ rev_bin = None
    /\ reference_data = None
    /\ full_data = None
    /\ load_error = FALSE
    /\ csv_files = <<>>
    /\ time_reference = None
    /\ measured_data = <<>>
    /\ time_measured = <<>>
    /\ measured_sample_rate = 1000
    /\ current_channel = 0
    /\ time_offset = <<0, 1>>
    /\ scale = <<1, 1>>
    /\ signal_offset = <<0, 1>>
    /\ labels = InitialLabels
    /\ validator_gain = ValidatorGain
    /\ validator_offset_voltage = offset_voltage
    /\ slot_exception = FALSE

\* the converter after construction, before a record is selected
ConvInit ==
    /\ ecg_mode = InitSelf.ecg_mode
    /\ electrode_data = InitSelf.electrode_data
    /\ conversion_errors = InitSelf.conversion_errors
    /\ sample_rate = InitSelf.sample_rate
    /\ gain = InitSelf.gain
    /\ record = InitSelf.record
    /\ signal = InitSelf.signal
    /\ signal_trimmed = InitSelf.signal_trimmed
    /\ trim_start = InitSelf.trim_start
    /\ trim_end = InitSelf.trim_end
    /\ clipping_warnings = InitSelf.clipping_warnings
    /\ start_spinbox = InitSelf.start_spinbox
    /\ end_spinbox = InitSelf.end_spinbox
    /\ convert_button = InitSelf.convert_button
    /\ output_file = InitSelf.output_file
    /\ conversion = InitSelf.conversion

Init ==
    /\ ConvInit
    /\ ret = None
    /\ ValIdle

\* record_combo.currentTextChanged
LoadRecord ==
    \E rec \in Records :
        /\ IF record = None THEN TRUE ELSE Val(record).record_name # rec.record_name
        /\ SetSelf(load_record(Self, rec))
        /\ UNCHANGED <<ret, valVars>>

\* start_spinbox.valueChanged / end_spinbox.valueChanged
ChangeTrimStart ==
    \E v \in TrimValues :
        /\ v # start_spinbox.value
        /\ v <= start_spinbox.maximum
        /\ SetSelf(SetStartValue(Self, v))
        /\ UNCHANGED <<ret, valVars>>
ChangeTrimEnd ==
    \E v \in TrimValues :
        /\ v # end_spinbox.value
        /\ v <= end_spinbox.maximum
        /\ SetSelf(SetEndValue(Self, v))
        /\ UNCHANGED <<ret, valVars>>

\* gain_spinbox.valueChanged
ChangeGain ==
    \E value \in GainValues :
        /\ value # gain
        /\ SetSelf(change_gain(Self, value))
        /\ UNCHANGED <<ret, valVars>>

\* mode_combo.currentIndexChanged
ChangeEcgMode ==
    \E index \in {0, 1} :
        /\ index # ModeIndex(ecg_mode)
        /\ SetSelf(change_ecg_mode(Self, index))
        /\ UNCHANGED <<ret, valVars>>

\* convert_button.clicked: only an enabled button can be clicked
ConvertToBinary ==
    /\ convert_button
    /\ SetSelf(convert_to_binary(Self))
    /\ UNCHANGED <<ret, valVars>>

Next ==
    \/ LoadRecord
    \/ ChangeTrimStart
    \/ ChangeTrimEnd
    \/ ChangeGain
    \/ ChangeEcgMode
    \/ ConvertToBinary

Spec == Init /\ [][Next]_vars


(***************************************************************************)
(* The validators' reader of the reference file (validator-10.py, v3.py).  *)
(***************************************************************************)
\* the two bytes read as '>H' (high byte first), a variant to compare against
UnpackHighFirst(raw_data, idx) == 256 * raw_data[idx + 1] + raw_data[idx + 2]

\* struct.unpack('<H', raw_data[idx:idx+2])[0]
UnpackH(raw_data, idx) == raw_data[idx + 1] + 256 * raw_data[idx + 2]

\* num_samples = file_size // (12 * 2)
NumSamples(raw_data) == Len(raw_data) \div (12 * 2)

\* the parse loop: sample after sample, twelve channels each, idx += 2
ParseChannel(raw_data, channel) ==
    [sample \in 1..NumSamples(raw_data) |->
        UnpackH(raw_data, ((sample - 1) * 12 + (channel - 1)) * 2)]
ParseFrames(raw_data) == [channel \in 1..12 |-> ParseChannel(raw_data, channel)]

\* self.reference_data[i] = self.adc_to_mv(self.reference_data[i])
ChannelToMv(codes) == [k \in 1..Len(codes) |-> adc_to_mv(Q(codes[k]), ValidatorGain)]

\* the first ten positions of a frame, a variant to compare against
FirstTenPositions == <<0, 1, 2, 3, 4, 5, 6, 7, 8, 9>>

\* validator-10.py: positions of RA, LA, LL, RL, V1..V6 in a frame
channel_binary_mapping == <<0, 1, 2, 3, 6, 7, 8, 9, 10, 11>>

\* ECGSignalValidator10.load_reference_binary: no statement of it raises on a
\* buffer of any length
load_reference_binary(raw_data) ==
    [full_data |-> Some(ParseFrames(raw_data)),
     reference_data |->
        Some([i \in 1..Len(channel_binary_mapping) |->
                ChannelToMv(ParseChannel(raw_data, channel_binary_mapping[i] + 1))]),
     load_error |-> FALSE]

\* ECGSignalValidator.load_reference_binary of v3.py: the closing print takes
\* np.min of reference_data, which raises on an array without samples
load_reference_binary_v3(raw_data) ==
    [full_data |-> Some(ParseFrames(raw_data)),
     reference_data |->
        Some([i \in 1..12 |-> ChannelToMv(ParseChannel(raw_data, i))]),
     load_error |-> NumSamples(raw_data) = 0]

SetValidator(v) ==
    /\ full_data' = v.full_data
    /\ reference_data' = v.reference_data
    /\ load_error' = v.load_error

(***************************************************************************)
(* The binary codec on its own: the converter's write loop run on arrays   *)
(* of codes, the file (whole or cut short) put into the signal folder, and *)
(* the validators reading it.                                              *)
(***************************************************************************)
MaxSamples == 2
CodeBases == {0, 4095, 65535}
CodeRow(base) == [c \in 1..max_channels |-> (base + 259 * (c - 1)) % 65536]
CodeArrays ==
    UNION { { [s \in 1..n |-> CodeRow(b[s])] : b \in [1..n -> CodeBases] } :
            n \in 0..MaxSamples }

InitCodec ==
    /\ ConvInit
    /\ ValIdle
    /\ ret \in { Some([op |-> "codes", adc_signal |-> a, bytes |-> <<>>]) :
                 a \in CodeArrays }

\* with open(output_path, 'wb') as f: the two loops of convert_to_binary
WriteLoop ==
    /\ Val(ret).op = "codes"
    /\ ret' = Some([op |-> "write", adc_signal |-> Val(ret).adc_signal,
                    bytes |-> WriteBinary(Val(ret).adc_signal)])
    /\ UNCHANGED <<convVars, valVars>>

\* the written file becomes rev.bin of the signal folder
PlaceReference ==
    /\ Val(ret).op = "write"
    /\ rev_bin = None
    /\ rev_bin' = Some(Val(ret).bytes)
    /\ UNCHANGED <<convVars, ret, reference_data, full_data, load_error, metricVars>>

\* rev.bin is an incomplete copy of the written file
PlaceCutReference ==
    /\ Val(ret).op = "write"
    /\ rev_bin = None
    /\ \E k \in 0..(Len(Val(ret).bytes) - 1) :
           rev_bin' = Some(SubSeq(Val(ret).bytes, 1, k))
    /\ UNCHANGED <<convVars, ret, reference_data, full_data, load_error, metricVars>>

\* load_all_data of validator-10.py up to the return of load_reference_binary
LoadReference10 ==
    /\ rev_bin # None
    /\ SetValidator(load_reference_binary(Val(rev_bin)))
    /\ UNCHANGED <<convVars, ret, rev_bin, metricVars>>

\* load_all_data of v3.py up to the return of load_reference_binary
LoadReferenceV3 ==
    /\ rev_bin # None
    /\ SetValidator(load_reference_binary_v3(Val(rev_bin)))
    /\ UNCHANGED <<convVars, ret, rev_bin, metricVars>>

NextCodec ==
    \/ WriteLoop
    \/ PlaceReference
    \/ PlaceCutReference
    \/ LoadReference10
    \/ LoadReferenceV3

SpecCodec == InitCodec /\ [][NextCodec]_vars


(***************************************************************************)
(* Properties of the binary codec, checked under SpecCodec.                *)
(***************************************************************************)
Written == Val(ret).op = "write"
WholeFileLoaded == Written /\ rev_bin = Some(Val(ret).bytes) /\ full_data # None

\* C1: binary codec round-trip. Whenever a validator has read the whole file that
\* the write loop produced from a 12-channel array of codes 0..65535 with n
\* samples, it holds 12 channels of n codes and the code of every (sample,
\* channel) pair is the one that was written.
C1_CodecRoundTrip ==
    WholeFileLoaded =>
        /\ Len(Val(full_data)) = 12
        /\ \A c \in 1..12 :
              /\ Len(Val(full_data)[c]) = Len(Val(ret).adc_signal)
              /\ \A s \in 1..Len(Val(ret).adc_signal) :
                    Val(full_data)[c][s] = Val(ret).adc_signal[s][c]

\* two samples, among them the codes 65535 and 4095 + 259 = 0x1102, read back
C1_Witness ==
    /\ WholeFileLoaded
    /\ ~load_error
    /\ Len(Val(ret).adc_signal) = 2
    /\ Val(ret).adc_signal[1][1] = 65535
    /\ Val(ret).adc_signal[2][2] = 4354
    /\ Val(full_data)[1][1] = 65535
    /\ Val(full_data)[2][2] = 4354

\* C2: format rejection. After a validator has read a reference buffer whose
\* length is not a multiple of 24, the read has raised an error and no sample
\* of the buffer has been parsed.
C2_FormatRejection ==
    (rev_bin # None /\ full_data # None /\ Len(Val(rev_bin)) % 24 # 0) =>
        /\ load_error
        /\ \A c \in 1..12 : Len(Val(full_data)[c]) = 0

\* C3: wire layout. The bytes written for n samples are exactly n*12*2, and the
\* code of channel c (0..11) at sample s (0..n-1) is at bytes (s*12 + c)*2 (low
\* byte) and (s*12 + c)*2 + 1 (high byte), counted from the start of the file.
C3_WireLayout ==
    Written =>
        /\ Len(Val(ret).bytes) = Len(Val(ret).adc_signal) * 12 * 2
        /\ \A s \in 0..(Len(Val(ret).adc_signal) - 1) : \A c \in 0..11 :
              /\ Val(ret).bytes[(s * 12 + c) * 2 + 1]
                    = Val(ret).adc_signal[s + 1][c + 1] % 256
              /\ Val(ret).bytes[(s * 12 + c) * 2 + 2]
                    = Val(ret).adc_signal[s + 1][c + 1] \div 256

\* a two-sample file of 48 bytes whose second frame begins with 4095 = 0x0FFF and
\* continues with 4354 = 0x1102
C3_Witness ==
    /\ Written
    /\ Len(Val(ret).adc_signal) = 2
    /\ Len(Val(ret).bytes) = 48
    /\ SubSeq(Val(ret).bytes, 25, 28) = <<255, 15, 2, 17>>


(***************************************************************************)
(* Properties of the converter application, checked under Spec.            *)
(***************************************************************************)
\* the non-zero samples of the selected data leave 0..vcc under the present gain
SelectedDataOverflows ==
    /\ signal_trimmed # None
    /\ VoltageOverflow(SignalToCheck(Self), gain)

\* C4: gain precondition. In every state reached by record loads, gain changes,
\* trim changes and mode changes, if the non-zero samples of the selected data
\* give minV < 0 or maxV > vcc then the convert button is disabled, so that no
\* file can be produced.
C4_GainPrecondition == SelectedDataOverflows => ~convert_button


(***************************************************************************)
(* The ADC codec on its own: convert_mv_to_adc called on the channels of a *)
(* signal, as convert_to_binary and the plots call it, the gain changed by *)
(* its handler, and the validators' adc_to_mv applied to what came back.   *)
(***************************************************************************)
AdcGainValues == {1, 100, 1000, 10000}

\* channels of two samples (mV): constant +100; far below and inside; inside;
\* the two ends of the range at gain 1000; far below and far above; codes that
\* are no whole numbers
TestChannels ==
    { <<Q(100), Q(100)>>, <<Q(-100), F(1, 2)>>, <<F(1, 2), Q(-1)>>,
      <<F(33, 20), F(-33, 20)>>, <<Q(-100), Q(100)>>, <<F(1, 3), Q(0)>> }
TestSignals == { <<a, b>> : a \in TestChannels, b \in TestChannels }

AdcCall(op, test_signal, channel, apply_clipping, g, before, r, stored, mv_signal) ==
    Some([op |-> op, test_signal |-> test_signal, channel |-> channel,
          apply_clipping |-> apply_clipping, gain |-> g,
          warnings_before |-> before, adc_values |-> r.adc_values,
          warnings_after |-> r.clipping_warnings, stored |-> stored,
          mv_signal |-> mv_signal])

InitAdc ==
    /\ ConvInit
    /\ ValIdle
    /\ ret \in { AdcCall("signal", sig, 0, FALSE, DefaultGain, <<>>,
                         [adc_values |-> <<>>, clipping_warnings |-> <<>>],
                         <<>>, <<>>) : sig \in TestSignals }

\* adc_signal[:, i] = self.convert_mv_to_adc(channel, apply_clipping=True)
\*                        .astype(np.uint16)
EncodeChannel ==
    \E channel \in 1..2 :
        /\ ret' = AdcCall("convert_mv_to_adc", Val(ret).test_signal, channel, TRUE,
                      gain, clipping_warnings,
                      convert_mv_to_adc(clipping_warnings, gain,
                                        Val(ret).test_signal[channel], TRUE),
                      AsUint16(convert_mv_to_adc(clipping_warnings, gain,
                                   Val(ret).test_signal[channel], TRUE).adc_values),
                      <<>>)
        /\ clipping_warnings' =
              convert_mv_to_adc(clipping_warnings, gain,
                                Val(ret).test_signal[channel], TRUE).clipping_warnings
        /\ UNCHANGED <<ecg_mode, electrode_data, conversion_errors, sample_rate, gain,
                       record, signal, signal_trimmed, trim_start, trim_end,
                       start_spinbox, end_spinbox, convert_button, output_file,
                       conversion, valVars>>

\* self.convert_mv_to_adc(channel, apply_clipping=False), as get_display_data does
ConvertUnclipped ==
    \E channel \in 1..2 :
        /\ ret' = AdcCall("convert_mv_to_adc", Val(ret).test_signal, channel, FALSE,
                      gain, clipping_warnings,
                      convert_mv_to_adc(clipping_warnings, gain,
                                        Val(ret).test_signal[channel], FALSE),
                      <<>>, <<>>)
        /\ clipping_warnings' =
              convert_mv_to_adc(clipping_warnings, gain,
                                Val(ret).test_signal[channel], FALSE).clipping_warnings
        /\ UNCHANGED <<ecg_mode, electrode_data, conversion_errors, sample_rate, gain,
                       record, signal, signal_trimmed, trim_start, trim_end,
                       start_spinbox, end_spinbox, convert_button, output_file,
                       conversion, valVars>>

\* gain_spinbox.valueChanged over the spin box's range
SetGain ==
    \E value \in AdcGainValues :
        /\ value # gain
        /\ SetSelf(change_gain(Self, value))
        /\ UNCHANGED <<ret, valVars>>

\* the validator, configured with the gain of the call, inverts what came back
DecodeReturned ==
    /\ Val(ret).op = "convert_mv_to_adc"
    /\ ret' = Some([Val(ret) EXCEPT
                      !.op = "adc_to_mv",
                      !.mv_signal = [k \in 1..Len(Val(ret).adc_values) |->
                                       adc_to_mv(Val(ret).adc_values[k], Val(ret).gain)]])
    /\ UNCHANGED <<convVars, valVars>>

NextAdc ==
    \/ EncodeChannel
    \/ ConvertUnclipped
    \/ SetGain
    \/ DecodeReturned

SpecAdc == InitAdc /\ [][NextAdc]_vars


(***************************************************************************)
(* Properties of the ADC codec, checked under SpecAdc.                     *)
(***************************************************************************)
Called == Val(ret).op \in {"convert_mv_to_adc", "adc_to_mv"}
ChannelCalled == Val(ret).test_signal[Val(ret).channel]

\* the code of sample k of the call before any clamping
Unclamped(k) == AdcValue(ChannelCalled[k], Val(ret).gain)
NLow == Cardinality({k \in 1..Len(ChannelCalled) : RLt(Unclamped(k), Q(0))})
NHigh == Cardinality({k \in 1..Len(ChannelCalled) : RGt(Unclamped(k), Q(adc_resolution))})

\* C5: clamping. A call with clipping enabled returns, for every sample, a code
\* in [0, resolution]: exactly resolution where the unclamped code is above
\* resolution, exactly 0 where it is below 0; and the value stored for the file
\* is an integer in 0..4095.
C5_Clamping ==
    (Called /\ Val(ret).apply_clipping) =>
        /\ Len(Val(ret).adc_values) = Len(ChannelCalled)
        /\ Len(Val(ret).stored) = Len(ChannelCalled)
        /\ \A k \in 1..Len(ChannelCalled) :
              /\ RLe(Q(0), Val(ret).adc_values[k])
              /\ RLe(Val(ret).adc_values[k], Q(adc_resolution))
              /\ RGt(Unclamped(k), Q(adc_resolution))
                    => Val(ret).adc_values[k] = Q(adc_resolution)
              /\ RLt(Unclamped(k), Q(0)) => Val(ret).adc_values[k] = Q(0)
              /\ Val(ret).stored[k] \in 0..4095

\* -100 mV and +100 mV at gain 1000 came back as 0 and 4095
C5_Witness ==
    /\ Called /\ Val(ret).apply_clipping
    /\ Val(ret).gain = 1000
    /\ ChannelCalled = <<Q(-100), Q(100)>>
    /\ Val(ret).adc_values = <<Q(0), Q(4095)>>
    /\ Val(ret).stored = <<0, 4095>>

\* C6: clipping detection. After a call with clipping enabled the warning with
\* the call's counts is in the list if and only if some sample's unclamped code
\* is < 0 or > resolution, a call that clamps nothing leaves the list as it was,
\* constant +100 mV at gain 1000 is reported, and the list never holds the same
\* warning twice.
C6_ClippingDetection ==
    /\ \A i, j \in 1..Len(clipping_warnings) :
          clipping_warnings[i] = clipping_warnings[j] => i = j
    /\ (Called /\ Val(ret).apply_clipping) =>
          /\ (ClippingWarning(NLow, NHigh) \in Range(Val(ret).warnings_after))
                <=> (NLow > 0 \/ NHigh > 0)
          /\ (NLow = 0 /\ NHigh = 0)
                => Val(ret).warnings_after = Val(ret).warnings_before
          /\ \A i, j \in 1..Len(Val(ret).warnings_after) :
                Val(ret).warnings_after[i] = Val(ret).warnings_after[j] => i = j
          /\ (ChannelCalled = <<Q(100), Q(100)>> /\ Val(ret).gain = 1000)
                => [kind |-> "Clipping detected", low |-> 0, high |-> 2,
                    resolution |-> 4095] \in Range(Val(ret).warnings_after)

\* constant +100 mV at gain 1000 converted again while its warning is in the list,
\* next to another channel's warning
C6_Witness ==
    /\ Val(ret).op = "convert_mv_to_adc" /\ Val(ret).apply_clipping
    /\ ChannelCalled = <<Q(100), Q(100)>>
    /\ Val(ret).gain = 1000
    /\ ClippingWarning(0, 2) \in Range(Val(ret).warnings_before)
    /\ Len(Val(ret).warnings_after) = 2
    /\ clipping_warnings = Val(ret).warnings_after

\* C7: ADC round-trip. adc_to_mv, under the configuration of the call, applied
\* to what convert_mv_to_adc returned gives back every sample within
\* vcc/resolution when clipping was off, and exactly when clipping was on and no
\* sample was clamped.
C7_AdcRoundTrip ==
    Val(ret).op = "adc_to_mv" =>
        /\ Len(Val(ret).mv_signal) = Len(ChannelCalled)
        /\ ~Val(ret).apply_clipping =>
              \A k \in 1..Len(ChannelCalled) :
                 RLe(RAbs(RSub(Val(ret).mv_signal[k], ChannelCalled[k])),
                     RDiv(vcc, Q(adc_resolution)))
        /\ (Val(ret).apply_clipping /\ NLow = 0 /\ NHigh = 0) =>
              Val(ret).mv_signal = ChannelCalled

\* 1/3 mV and 0 mV at gain 100, converted with clipping on without a clamp, and
\* back
C7_Witness ==
    /\ Val(ret).op = "adc_to_mv"
    /\ Val(ret).apply_clipping
    /\ Val(ret).gain = 100
    /\ NLow = 0 /\ NHigh = 0
    /\ ChannelCalled = <<F(1, 3), Q(0)>>
    /\ Val(ret).mv_signal = <<F(1, 3), Q(0)>>
    /\ Val(ret).adc_values[1] # Q(RTrunc(Val(ret).adc_values[1]))


\* C20: preview mode. A call with clipping disabled returns the codes as
\* computed, unclamped, so that they may lie outside [0, resolution], and
\* leaves the list of clipping warnings as it was.
C20_PreviewUnclipped ==
    (Called /\ ~Val(ret).apply_clipping) =>
        /\ Len(Val(ret).adc_values) = Len(ChannelCalled)
        /\ \A k \in 1..Len(ChannelCalled) : Val(ret).adc_values[k] = Unclamped(k)
        /\ Val(ret).warnings_after = Val(ret).warnings_before

\* -100 mV and +100 mV previewed at gain 1000, with a warning of an earlier
\* conversion in the list: codes below 0 and above 4095 came back
C20_Witness ==
    /\ Val(ret).op = "convert_mv_to_adc" /\ ~Val(ret).apply_clipping
    /\ Val(ret).gain = 1000
    /\ ChannelCalled = <<Q(-100), Q(100)>>
    /\ RLt(Val(ret).adc_values[1], Q(0))
    /\ RGt(Val(ret).adc_values[2], Q(adc_resolution))
    /\ Val(ret).warnings_before # <<>>
    /\ Val(ret).warnings_after = Val(ret).warnings_before


(***************************************************************************)
(* The channel mapper on its own: a record with arbitrary channel names is *)
(* loaded, map_channels_to_standard is called while gain and mode change   *)
(* through their handlers.                                                 *)
(***************************************************************************)
MaxSources == 2
SourceNames ==
    { <<"a","V","R">>, <<"V","R">>, MLII, MLI, <<"X","Y","Z">>,
      <<" ","i","i"," ">>, <<"I","I">>, <<"V","6">> }
SourceNameLists == UNION { [1..n -> SourceNames] : n \in 1..MaxSources }

\* two samples per channel; channel i holds 10*i + 1 and 10*i + 2 (mV), so that
\* every column names its source
MapRecord(names) ==
    [record_name |-> "names", fs |-> 10, sig_name |-> names,
     p_signal |-> [k \in 1..2 |-> [i \in 1..Len(names) |-> Q(10 * i + k)]]]

SelfIs(s) ==
    /\ ecg_mode = s.ecg_mode
    /\ electrode_data = s.electrode_data
    /\ conversion_errors = s.conversion_errors
    /\ sample_rate = s.sample_rate
    /\ gain = s.gain
    /\ record = s.record
    /\ signal = s.signal
    /\ signal_trimmed = s.signal_trimmed
    /\ trim_start = s.trim_start
    /\ trim_end = s.trim_end
    /\ clipping_warnings = s.clipping_warnings
    /\ start_spinbox = s.start_spinbox
    /\ end_spinbox = s.end_spinbox
    /\ convert_button = s.convert_button
    /\ output_file = s.output_file
    /\ conversion = s.conversion

NoMapCall ==
    [op |-> "none", sig_name |-> <<>>, signal_to_map |-> <<>>, mapped |-> <<>>,
     gain |-> DefaultGain, ecg_mode |-> "12-lead", previous |-> None]

\* the converter with a record selected
InitMap ==
    /\ \E names \in SourceNameLists : SelfIs(load_record(InitSelf, MapRecord(names)))
    /\ ret = Some(NoMapCall)
    /\ ValIdle

\* what a call is given and what it returns, kept next to the call before it
MapCall(s, previous) ==
    [op |-> "map_channels_to_standard", sig_name |-> Val(s.record).sig_name,
     signal_to_map |-> Val(s.signal_trimmed), mapped |-> map_channels_to_standard(s),
     gain |-> s.gain, ecg_mode |-> s.ecg_mode,
     previous |-> IF previous.op = "none" THEN None
                  ELSE Some([previous EXCEPT !.previous = None])]

\* mapped_signal = self.map_channels_to_standard(): the method assigns to no
\* attribute of self
CallMap ==
    /\ ret' = Some(MapCall(Self, Val(ret)))
    /\ UNCHANGED <<convVars, valVars>>

NextMap ==
    \/ CallMap
    \/ ChangeGain
    \/ ChangeEcgMode

SpecMap == InitMap /\ [][NextMap]_vars


(***************************************************************************)
(* Properties of the channel mapper, checked under SpecMap.                *)
(***************************************************************************)
Mapped == Val(ret).op = "map_channels_to_standard"
SourceColumn(i) == Column(Val(ret).signal_to_map, i)
TargetColumn(j) == Column(Val(ret).mapped, j)
Sources == 1..Len(Val(ret).sig_name)
AllZero(col) == \A k \in 1..Len(col) : col[k] = Q(0)

\* the matching rule as the specification words it
Normalized(name) == StrUpper(StrStrip(name))
TargetUpper == [j \in 1..12 |-> StrUpper(CHANNELS_12LEAD[j])]
TargetWithoutA == [j \in 1..12 |-> StrRemove(StrUpper(CHANNELS_12LEAD[j]), "A")]
NormalizedMatches(n, j) ==
    \/ n = TargetUpper[j]
    \/ n = TargetWithoutA[j]
    \/ (n = <<"M","L","I","I">> /\ CHANNELS_12LEAD[j] = <<"I","I">>)
    \/ (n = <<"M","L","I">> /\ CHANNELS_12LEAD[j] = <<"I">>)
SlotsOf(n) == {j \in 1..12 : NormalizedMatches(n, j)}
NameMatches(name, j) == j \in SlotsOf(Normalized(name))
MatchedSlots(i) == SlotsOf(Normalized(Val(ret).sig_name[i]))

\* C8: mapping exclusivity. The data of a source channel are in at most one
\* target slot, and only in the first slot (in 12-lead order) its name matches;
\* the data of a source that matches no target are in no slot; a slot matched
\* by no source is all zero; the output has the input's sample count and 12
\* slots.
C8_MappingExclusive ==
    Mapped =>
        LET slots == [i \in Sources |-> MatchedSlots(i)]
            holders == [i \in Sources |->
                           {j \in 1..12 : TargetColumn(j) = SourceColumn(i)}]
        IN  /\ Len(Val(ret).mapped) = Len(Val(ret).signal_to_map)
            /\ \A k \in 1..Len(Val(ret).mapped) : Len(Val(ret).mapped[k]) = 12
            /\ \A i \in Sources :
                  /\ Cardinality(holders[i]) <= 1
                  /\ \A j \in holders[i] :
                        j \in slots[i] /\ \A j2 \in slots[i] : j <= j2
            /\ \A j \in 1..12 :
                  (\A i \in Sources : j \notin slots[i]) => AllZero(TargetColumn(j))

\* 'XYZ' and 'VR' mapped: the data of 'VR' are in slot aVR alone, those of 'XYZ'
\* nowhere, and the other eleven slots are zero
C8_Witness ==
    /\ Mapped
    /\ Val(ret).sig_name = << <<"X","Y","Z">>, <<"V","R">> >>
    /\ Len(Val(ret).mapped) = 2
    /\ TargetColumn(4) = SourceColumn(2)
    /\ \A j \in 1..12 : TargetColumn(j) # SourceColumn(1)
    /\ \A j \in (1..12) \ {4} : AllZero(TargetColumn(j))

\* the examples of the specification: the slot (counted from 1) of a name, 0 for none
ExampleNames ==
    { <<"a","V","R">>, <<"V","R">>, <<"M","L","I","I">>, <<"M","L","I">>,
      <<"X","Y","Z">> }
ExampleSlot(name) ==
    CASE name = <<"a","V","R">> -> 4
      [] name = <<"V","R">> -> 4
      [] name = <<"M","L","I","I">> -> 2
      [] name = <<"M","L","I">> -> 1
      [] name = <<"X","Y","Z">> -> 0

\* source i is the last source of the call whose name matches slot j
LastMatching(i, j) ==
    /\ NameMatches(Val(ret).sig_name[i], j)
    /\ \A i2 \in Sources : i2 > i => ~NameMatches(Val(ret).sig_name[i2], j)

\* C9: channel name matching. A slot holds the data of a source exactly when
\* the trimmed, upper-cased source name equals the upper-cased target name, or
\* that name without 'A', or is MLII for II, or MLI for I (of several such
\* sources, the last one's data); 'aVR' and 'VR' go to slot aVR, 'MLII' to II,
\* 'MLI' to I and 'XYZ' to no slot.
C9_NameMatching ==
    Mapped =>
        /\ \A j \in 1..12 : \A i \in Sources :
              /\ LastMatching(i, j) => TargetColumn(j) = SourceColumn(i)
              /\ TargetColumn(j) = SourceColumn(i) => NameMatches(Val(ret).sig_name[i], j)
        /\ \A i \in Sources :
              Val(ret).sig_name[i] \in ExampleNames =>
                 /\ MatchedSlots(i) = {ExampleSlot(Val(ret).sig_name[i])} \ {0}
                 /\ ExampleSlot(Val(ret).sig_name[i]) = 0
                       => \A j \in 1..12 : TargetColumn(j) # SourceColumn(i)
                 /\ (ExampleSlot(Val(ret).sig_name[i]) # 0
                     /\ LastMatching(i, ExampleSlot(Val(ret).sig_name[i])))
                       => TargetColumn(ExampleSlot(Val(ret).sig_name[i])) = SourceColumn(i)

\* 'MLI' and ' ii ' mapped: slot I holds the first channel, slot II the second
C9_Witness ==
    /\ Mapped
    /\ Val(ret).sig_name = << <<"M","L","I">>, <<" ","i","i"," ">> >>
    /\ TargetColumn(1) = SourceColumn(1)
    /\ TargetColumn(2) = SourceColumn(2)
    /\ SourceColumn(1) = <<Q(11), Q(12)>>

\* the previous call was given the same names and the same trimmed signal
SameInputs(call, earlier) ==
    /\ call.sig_name = earlier.sig_name
    /\ call.signal_to_map = earlier.signal_to_map

\* C10: the mapping is pure. A call given the names and the trimmed signal of
\* the call before it returns what that call returned, whatever else changed
\* in between, and a call changes neither signal, signal_trimmed nor any other
\* variable of the converter.
C10_MappingPure ==
    [][ (ret' # ret /\ Val(ret').op = "map_channels_to_standard") =>
          /\ UNCHANGED convVars
          /\ (Val(ret).op = "map_channels_to_standard" /\ SameInputs(Val(ret'), Val(ret)))
                => Val(ret').mapped = Val(ret).mapped ]_vars

\* a second call in 10-lead mode at gain 100 after a first in 12-lead mode at
\* gain 1000, both returning the same non-zero mapping
C10_Witness ==
    /\ Mapped
    /\ Val(ret).previous # None
    /\ Val(ret).ecg_mode = "10-lead" /\ Val(Val(ret).previous).ecg_mode = "12-lead"
    /\ Val(ret).gain = 100 /\ Val(Val(ret).previous).gain = 1000
    /\ electrode_data # None
    /\ SameInputs(Val(ret), Val(Val(ret).previous))
    /\ Val(ret).mapped = Val(Val(ret).previous).mapped
    /\ ~AllZero(TargetColumn(4))


(***************************************************************************)
(* Properties of the 10-lead synthesis, checked under Spec. In 10-lead     *)
(* mode every handler that changes the trimmed signal reconverts, so the   *)
(* electrodes of a state are those of its mapped signal.                   *)
(***************************************************************************)
TenLeadData == ecg_mode = "10-lead" /\ signal_trimmed # None
Third(x) == RDiv(x, Q(3))

\* C11: electrode synthesis. In 10-lead mode the electrode data have one row per
\* sample of the trimmed input, and in every row RA = -(I + II)/3,
\* LA = (2*I - II)/3, LL = (2*II - I)/3, RL = 0 and electrodes 4..9 are the
\* mapped slots 6..11.
C11_ElectrodeSynthesis ==
    TenLeadData =>
        /\ electrode_data # None
        /\ Len(Val(electrode_data)) = Len(Val(signal_trimmed))
        /\ \A k \in 1..Len(Val(electrode_data)) :
              LET m == map_channels_to_standard(Self)[k]
                  e == Val(electrode_data)[k]
              IN  /\ Len(e) = 10
                  /\ e[1] = RNeg(Third(RAdd(m[1], m[2])))
                  /\ e[2] = Third(RSub(RAdd(m[1], m[1]), m[2]))
                  /\ e[3] = Third(RSub(RAdd(m[2], m[2]), m[1]))
                  /\ e[4] = Q(0)
                  /\ \A v \in 1..6 : e[4 + v] = m[6 + v]

\* the twelve-lead record in 10-lead mode: I = 0.3 and II = 0.9 give RA = -0.4,
\* LA = -0.1, LL = 0.5, followed by V1..V6 of the record
C11_Witness ==
    /\ TenLeadData
    /\ Val(record).record_name = "twelve"
    /\ Len(Val(electrode_data)) = 2
    /\ Val(electrode_data)[1] =
          <<F(-2, 5), F(-1, 10), F(1, 2), Q(0),
            F(-1, 5), F(1, 10), F(2, 5), F(7, 10), F(3, 5), F(1, 2)>>

\* the source's Lead III is II - I at every sample
LeadIIIIsSynthetic ==
    \A k \in 1..Len(Val(signal_trimmed)) :
        LET m == map_channels_to_standard(Self)[k] IN m[3] = RSub(m[2], m[1])
ElectrodeIdentity ==
    \A k \in 1..Len(Val(electrode_data)) :
        LET m == map_channels_to_standard(Self)[k]
            e == Val(electrode_data)[k]
        IN  RSub(e[3], e[2]) = RSub(m[2], m[1])

\* C12 as stated: LL - LA = II - I at every sample, and with a synthetic
\* Lead III the residual error is 0 and no validation warning is recorded.
C12_SynthesisIdentity ==
    (TenLeadData /\ electrode_data # None) =>
        /\ ElectrodeIdentity
        /\ LeadIIIIsSynthetic =>
              /\ LeadIIIError(map_channels_to_standard(Self)) = Some(Q(0))
              /\ conversion_errors = {}

\* C12, amended: the same for an input of at least one sample; for an input
\* without samples the residual is the mean of nothing (nan, None here) and no
\* validation warning is recorded.
C12_SynthesisIdentityNonEmpty ==
    (TenLeadData /\ electrode_data # None) =>
        /\ ElectrodeIdentity
        /\ LeadIIIIsSynthetic =>
              /\ conversion_errors = {}
              /\ LeadIIIError(map_channels_to_standard(Self)) =
                    IF Val(signal_trimmed) = <<>> THEN None ELSE Some(Q(0))

\* the twelve-lead record, whose III is II - I, synthesized over both samples
C12_Witness ==
    /\ TenLeadData /\ electrode_data # None
    /\ Val(record).record_name = "twelve"
    /\ Len(Val(signal_trimmed)) = 2
    /\ LeadIIIIsSynthetic
    /\ map_channels_to_standard(Self)[1][3] = F(3, 5)
    /\ LeadIIIError(map_channels_to_standard(Self)) = Some(Q(0))
    /\ conversion_errors = {}


\* mean(|(LL - LA) - III|) over the samples of the state, 0 for no samples
ResidualSum ==
    RSum([k \in 1..Len(Val(electrode_data)) |->
            RAbs(RSub(RSub(Val(electrode_data)[k][3], Val(electrode_data)[k][2]),
                      map_channels_to_standard(Self)[k][3]))])
Residual ==
    IF Val(electrode_data) = <<>> THEN Q(0)
    ELSE RDiv(ResidualSum, Q(Len(Val(electrode_data))))
ResidualExceeds == RGt(Residual, <<1, 20>>)
HasResidualWarning(warnings) ==
    \E k \in 1..Len(warnings) :
        warnings[k].kind = "Conversion error" /\ warnings[k].lead = "Lead III"

Converts == conversion' # conversion

\* the code of slot c (0..11) at sample s (0..) of a file
CodeAt(bytes, s, c) == bytes[(s * 12 + c) * 2 + 1] + 256 * bytes[(s * 12 + c) * 2 + 2]
\* the code of a value in mV under gain g: clamped, then cut to a whole number
CodeOf(x, g) == RTrunc(Clip(AdcValue(x, g)))

\* C14: ten-lead frame layout. A file written in 10-lead mode has, for every
\* sample, the codes of RA, LA, LL, RL in slots 0..3, code 0 in slots 4 and 5,
\* and the codes of V1..V6 in slots 6..11.
C14_TenLeadLayout ==
    [][ (Converts /\ ecg_mode = "10-lead") =>
          /\ output_file' # None
          /\ Len(Val(output_file')) = Len(Val(electrode_data)) * 24
          /\ \A s \in 0..(Len(Val(electrode_data)) - 1) :
                /\ \A c \in 0..3 :
                      CodeAt(Val(output_file'), s, c)
                          = CodeOf(Val(electrode_data)[s + 1][c + 1], gain)
                /\ CodeAt(Val(output_file'), s, 4) = 0
                /\ CodeAt(Val(output_file'), s, 5) = 0
                /\ \A c \in 6..11 :
                      CodeAt(Val(output_file'), s, c)
                          = CodeOf(Val(electrode_data)[s + 1][c - 1], gain) ]_vars

\* the twelve-lead record converted in 10-lead mode at gain 1000: RA = -0.4 mV
\* is code 1551, RL = 0 mV is code 2047, the padding is 0, V1 = -0.2 mV is 1799
C14_Witness ==
    /\ conversion # None
    /\ Val(conversion).mode = "10-lead"
    /\ Val(record).record_name = "twelve"
    /\ Len(Val(output_file)) = 48
    /\ CodeAt(Val(output_file), 0, 0) = 1551
    /\ CodeAt(Val(output_file), 0, 3) = 2047
    /\ CodeAt(Val(output_file), 0, 4) = 0
    /\ CodeAt(Val(output_file), 0, 5) = 0
    /\ CodeAt(Val(output_file), 0, 6) = 1799

\* the data the conversion encodes, and whether one of its samples is clamped
DataToEncode ==
    IF ecg_mode = "10-lead" THEN Val(electrode_data) ELSE map_channels_to_standard(Self)
SomeSampleClamped ==
    \E k \in 1..Len(DataToEncode) : \E j \in 1..Len(DataToEncode[k]) :
        \/ RLt(AdcValue(DataToEncode[k][j], gain), Q(0))
        \/ RGt(AdcValue(DataToEncode[k][j], gain), Q(4095))
HasClippingWarning(warnings) ==
    \E k \in 1..Len(warnings) : warnings[k].kind = "Clipping detected"

\* C15: clipping is non-fatal. A conversion of data of which a sample is
\* clamped completes with a status marked as with warnings, writes a file of
\* samples*24 bytes and has the clipping warning in its result.
C15_ClippingNonFatal ==
    [][ (Converts /\ SomeSampleClamped) =>
          /\ Val(conversion').status = "Success (with warnings)"
          /\ Val(conversion').samples = Len(DataToEncode)
          /\ output_file' # None
          /\ Len(Val(output_file')) = Len(DataToEncode) * 24
          /\ Val(conversion').file_size = Len(DataToEncode) * 24
          /\ HasClippingWarning(Val(conversion').warnings)
          /\ HasClippingWarning(clipping_warnings') ]_vars

\* the record with +10 mV and -10 mV converted at gain 1000: codes 4095 and 0
\* in a file of 48 bytes, and the warning in the result
C15_Witness ==
    /\ conversion # None
    /\ Val(record).record_name = "big"
    /\ Val(conversion).mode = "12-lead"
    /\ Val(conversion).status = "Success (with warnings)"
    /\ HasClippingWarning(Val(conversion).warnings)
    /\ Len(Val(output_file)) = 48
    /\ CodeAt(Val(output_file), 0, 0) = 4095
    /\ CodeAt(Val(output_file), 0, 1) = 0

\* the channels of the mapped signal a validation warning is due for
MappedAllZero(i) ==
    \A k \in 1..Len(map_channels_to_standard(Self)) :
        map_channels_to_standard(Self)[k][i] = Q(0)
MappedOutOfRange(i) ==
    \E k \in 1..Len(map_channels_to_standard(Self)) :
        \/ RGt(map_channels_to_standard(Self)[k][i], Q(9))
        \/ RLt(map_channels_to_standard(Self)[k][i], Q(-9))
NamedIn(warnings, kind, name) ==
    \E k \in 1..Len(warnings) :
        /\ warnings[k].kind = kind
        /\ \E j \in 1..Len(warnings[k].channels) : warnings[k].channels[j] = name
Succeeds == conversion' # None /\ Val(conversion').status # "Error"

\* C19: validation warnings are data. In every successful conversion, in
\* 12-lead or 10-lead mode, each channel that is all zero after the mapping is
\* named by an empty-channels warning of the result and each channel with a
\* sample outside +-9 mV by a range warning of the result.
C19_ValidationWarnings ==
    [][ (Converts /\ Succeeds) =>
          \A i \in 1..12 :
             /\ MappedAllZero(i) =>
                   NamedIn(Val(conversion').warnings, "Empty channels detected",
                           CHANNELS_12LEAD[i])
             /\ MappedOutOfRange(i) =>
                   NamedIn(Val(conversion').warnings, "Signal exceeds +-9mV range",
                           CHANNELS_12LEAD[i]) ]_vars

(***************************************************************************)
(* The 10-lead validator's metrics (validator-10.py).                      *)
(*                                                                         *)
(* nan is the pair <<0, 0>>, which no arithmetic on rationals yields.  A   *)
(* dict is a function on its keys.  A label is its state ("--",            *)
(* "No overlap", "Error", "nan", "infinity" or "value") and, in state      *)
(* "value", the number it shows: rounded as the text is for MSE, peak      *)
(* error and THD, by its exact parts for SNR and correlation.              *)
(***************************************************************************)
NaN == <<0, 0>>
IsNaN(x) == x[2] = 0
HasNaN(a) == \E k \in 1..Len(a) : IsNaN(a[k])
reference_sample_rate == 360

\* d[k] = x
DictSet(d, k, x) == [j \in (DOMAIN d) \cup {k} |-> IF j = k THEN x ELSE d[j]]

RFloor(a) == IF a[1] >= 0 THEN a[1] \div a[2] ELSE -(((-a[1]) + a[2] - 1) \div a[2])
RoundInt(y, fl) ==
    IF RLt(RMul(Q(2), RSub(y, Q(fl))), Q(1)) THEN fl
    ELSE IF RGt(RMul(Q(2), RSub(y, Q(fl))), Q(1)) THEN fl + 1
    ELSE (IF fl % 2 = 0 THEN fl ELSE fl + 1)
RoundScaled(y, units) == RNorm(RoundInt(y, RFloor(y)), units)
\* f"{(x/divisor):.3f}" with units = 1000: x/divisor rounded to a multiple of
\* 1/units, ties to even
RoundTo(x, units, divisor) == RoundScaled(RMul(x, RNorm(units, divisor)), units)

Text(state) == [state |-> state, value |-> Q(0)]
Number(x, units, divisor) ==
    IF IsNaN(x) THEN Text("nan")
    ELSE [state |-> "value", value |-> RoundTo(x, units, divisor)]
AllLabels(state) ==
    [snr |-> Text(state), mse |-> Text(state), peak_error |-> Text(state),
     thd |-> Text(state), correlation |-> Text(state)]

\* np.arange(num_samples) / self.reference_sample_rate
TimeReference(num_samples) ==
    [k \in 1..num_samples |-> RNorm(k - 1, reference_sample_rate)]
\* np.linspace(0, stop, num)
Linspace(stop, num) ==
    [k \in 1..num |-> IF num = 1 THEN Q(0) ELSE RDiv(RMul(Q(k - 1), stop), Q(num - 1))]
ZeroSignal(num) == [k \in 1..num |-> Q(0)]

(***************************************************************************)
(* calculate_peak_error                                                    *)
(***************************************************************************)
\* np.max of an array without elements raises
PeakErrorRaises(ref_signal, measured_signal) ==
    Min2(Len(ref_signal), Len(measured_signal)) = 0
AbsError(ref_signal, measured_signal) ==
    [k \in 1..Min2(Len(ref_signal), Len(measured_signal)) |->
        IF IsNaN(measured_signal[k]) THEN NaN
        ELSE RAbs(RSub(ref_signal[k], measured_signal[k]))]
\* np.argmax (0-based): the first nan if there is one, else the first maximum
ArgMax(a) ==
    IF HasNaN(a)
    THEN (CHOOSE k \in 1..Len(a) :
             IsNaN(a[k]) /\ \A j \in 1..(k - 1) : ~IsNaN(a[j])) - 1
    ELSE (CHOOSE k \in 1..Len(a) :
             /\ \A j \in 1..Len(a) : RLe(a[j], a[k])
             /\ \A j \in 1..(k - 1) : RLt(a[j], a[k])) - 1
PeakOf(error) == <<error[ArgMax(error) + 1], ArgMax(error)>>
\* returns (peak_error, peak_index); except Exception: return 0, 0
calculate_peak_error(ref_signal, measured_signal) ==
    IF PeakErrorRaises(ref_signal, measured_signal) THEN <<Q(0), 0>>
    ELSE PeakOf(AbsError(ref_signal, measured_signal))

(***************************************************************************)
(* calculate_thd                                                           *)
(***************************************************************************)
\* the bins of freqs[:N//2] inside 0.5 .. 3 Hz
HeartRateBins(N, fs) ==
    {k \in 0..((N \div 2) - 1) :
        RLe(RNorm(1, 2), RNorm(k * fs, N)) /\ RLe(RNorm(k * fs, N), Q(3))}
\* A signal with a bin inside 0.5 .. 3 Hz (120 samples and more at 360 Hz) has
\* its distortion computed from the spectrum; the signals of this model are
\* shorter, and the value is left open.
SpectrumTHD == NaN
\* the transform of an empty array raises (except: return 0); without a bin in
\* the heart-rate range the function returns 0
calculate_thd(signal_in, fs) ==
    IF Len(signal_in) = 0 THEN Q(0)
    ELSE IF HeartRateBins(Len(signal_in), fs) = {} THEN Q(0)
    ELSE SpectrumTHD

(***************************************************************************)
(* calculate_cross_correlation_metrics                                     *)
(***************************************************************************)
MeanOf(a) == RDiv(RSum(a), Q(Len(a)))
Centered(a, mean) == [k \in 1..Len(a) |-> RSub(a[k], mean)]
Squares(a) == [k \in 1..Len(a) |-> RMul(a[k], a[k])]
\* np.std(a) ** 2
Variance(a) == MeanOf(Squares(Centered(a, MeanOf(a))))
\* np.std(x) > 0 guards the division: the divisor, squared
StdDivisorSquared(variance) == IF RGt(variance, Q(0)) THEN variance ELSE Q(1)

\* scipy_signal.correlate(a, b, mode='full') at the lag: sum of a[l] * b[l - lag]
CorrelateAt(a, b, lag) ==
    RSum([l \in 1..Len(a) |->
            IF (l - lag) \in 1..Len(b) THEN RMul(a[l], b[l - lag]) ELSE Q(0)])
\* index i (1..2n-1) of the result has the lag i - n
Correlate(a, b) == [i \in 1..(2 * Len(a) - 1) |-> CorrelateAt(a, b, i - Len(a))]
AbsAll(a) == [k \in 1..Len(a) |-> RAbs(a[k])]

\* The coefficient is peak / (std_ref * std_measured * min_len), in general
\* not a rational: it is held by its parts, the peak of the correlation of
\* the centered signals and the squares of the two divisors.
Coefficient(peak, std_ref_squared, std_measured_squared, min_len) ==
    [peak |-> peak, std_ref_squared |-> std_ref_squared,
     std_measured_squared |-> std_measured_squared, min_len |-> min_len]
\* peak_corr = correlation[peak_corr_idx]; peak_lag = lags[peak_corr_idx]
PeakCorrelation(correlation, peak_corr_idx, std_ref_squared, std_measured_squared) ==
    <<Coefficient(correlation[peak_corr_idx + 1], std_ref_squared,
                  std_measured_squared, (Len(correlation) + 1) \div 2),
      peak_corr_idx + 1 - ((Len(correlation) + 1) \div 2)>>
NormalizedPeak(correlation, std_ref_squared, std_measured_squared, min_len) ==
    PeakCorrelation(correlation, ArgMax(AbsAll(correlation)), std_ref_squared,
                    std_measured_squared)
\* returns (peak_corr_normalized, peak_lag); np.argmax of an empty correlation
\* raises (except: return 0, 0); with nan samples the whole correlation is nan
calculate_cross_correlation_metrics(ref_signal, measured_signal) ==
    IF Min2(Len(ref_signal), Len(measured_signal)) = 0
    THEN <<Coefficient(Q(0), Q(1), Q(1), 1), 0>>
    ELSE IF HasNaN(measured_signal)
    THEN <<Coefficient(NaN, Q(1), Q(1), Len(ref_signal)), 1 - Len(ref_signal)>>
    ELSE NormalizedPeak(
            Correlate(Centered(ref_signal, MeanOf(ref_signal)),
                      Centered(measured_signal, MeanOf(measured_signal))),
            StdDivisorSquared(Variance(ref_signal)),
            StdDivisorSquared(Variance(measured_signal)),
            Len(ref_signal))

(***************************************************************************)
(* calculate_snr_mse                                                       *)
(***************************************************************************)
\* measured_time = self.time_measured[channel] + self.time_offset
Shifted(times, offset) == [k \in 1..Len(times) |-> RAdd(times[k], offset)]
\* (measured_signal * scale + v_offset) * 1000
Adjusted(measured_signal, scale_value, v_offset) ==
    [k \in 1..Len(measured_signal) |->
        RMul(RAdd(RMul(measured_signal[k], scale_value), v_offset), Q(1000))]
RMax2(a, b) == IF RLt(a, b) THEN b ELSE a
RMin2(a, b) == IF RLt(b, a) THEN b ELSE a

\* the test with > in place of >=, a variant to compare against
NoOverlapStrict(time_start, time_end) == RGt(time_start, time_end)

\* if time_start >= time_end
NoOverlap(time_start, time_end) == RLe(time_end, time_start)

\* (times >= time_start) & (times <= time_end)
Mask(times, time_start, time_end) ==
    {k \in 1..Len(times) : RLe(time_start, times[k]) /\ RLe(times[k], time_end)}
\* a[mask]; the times ascend, so a mask selects consecutive indices
Masked(a, mask) ==
    IF mask = {} THEN <<>>
    ELSE [k \in 1..Cardinality(mask) |->
            a[(CHOOSE m \in mask : \A j \in mask : m <= j) + k - 1]]

\* interp1d(x, y, kind='linear', fill_value='extrapolate') at t, between the
\* points hi - 1 and hi: hi = clip(searchsorted(x, t), 1, len(x) - 1)
\* (two points at one time are the mock data of a reference of one sample,
\* whose values are 0: the slope is 0/0)
LinearAt(x, y, t, hi) ==
    IF x[hi + 1] = x[hi] THEN NaN
    ELSE RAdd(y[hi], RMul(RDiv(RSub(y[hi + 1], y[hi]), RSub(x[hi + 1], x[hi])),
                          RSub(t, x[hi])))
InterpAt(x, y, t) ==
    LinearAt(x, y, t,
             Max2(1, Min2(Cardinality({k \in 1..Len(x) : RLt(x[k], t)}), Len(x) - 1)))
\* with a single point the slope is 0/0 and every value nan
interp1d(x, y, x_new) ==
    IF Len(x) = 1 THEN [k \in 1..Len(x_new) |-> NaN]
    ELSE [k \in 1..Len(x_new) |-> InterpAt(x, y, x_new[k])]

\* np.mean((ref - measured) ** 2): nan for no samples and for nan samples
MeanSquareError(ref_overlap, measured_resampled) ==
    IF ref_overlap = <<>> \/ HasNaN(measured_resampled) THEN NaN
    ELSE MeanOf([k \in 1..Len(ref_overlap) |->
                    RMul(RSub(ref_overlap[k], measured_resampled[k]),
                         RSub(ref_overlap[k], measured_resampled[k]))])
\* np.mean(ref_overlap ** 2)
MeanSquare(ref_overlap) ==
    IF ref_overlap = <<>> THEN NaN ELSE MeanOf(Squares(ref_overlap))

\* a noise floor added in place of the test, a variant to compare against
SnrWithNoiseFloor(signal_ms, noise_ms) ==
    IF IsNaN(noise_ms) THEN [kind |-> "inf", signal_ms |-> signal_ms, noise_ms |-> noise_ms]
    ELSE IF RIsZero(signal_ms)
    THEN [kind |-> "-inf", signal_ms |-> signal_ms, noise_ms |-> noise_ms]
    ELSE [kind |-> "dB", signal_ms |-> signal_ms,
          noise_ms |-> RMax2(noise_ms, RNorm(1, 100))]

\* snr_db from the mean squares of signal and noise (the RMS values are their
\* roots): 20*log10(signal_rms/noise_rms) is held by the two mean squares;
\* noise_rms > 0 is false for 0 and for nan; log10(0) is -inf
SnrDb(signal_ms, noise_ms) ==
    IF IsNaN(noise_ms) \/ ~RGt(noise_ms, Q(0))
    THEN [kind |-> "inf", signal_ms |-> signal_ms, noise_ms |-> noise_ms]
    ELSE IF RIsZero(signal_ms)
    THEN [kind |-> "-inf", signal_ms |-> signal_ms, noise_ms |-> noise_ms]
    ELSE [kind |-> "dB", signal_ms |-> signal_ms, noise_ms |-> noise_ms]

\* f"SNR: {snr_db:.1f} dB" if np.isfinite(snr_db), else "SNR: ∞ dB"
SnrLabel(snr_db) ==
    IF snr_db.kind = "dB"
    THEN [state |-> "value", value |-> <<snr_db.signal_ms, snr_db.noise_ms>>]
    ELSE Text("infinity")

\* the labels with the peak error formatted into the THD label, a variant to
\* compare against
MetricLabelsThdFromPeak(snr_db, mse, peak, thd, correlation) ==
    [snr |-> SnrLabel(snr_db),
     mse |-> Number(mse, 1000, 100000),
     peak_error |-> Number(peak[1], 100, 10),
     thd |-> Number(peak[1], 100, 10),
     correlation |->
        IF IsNaN(correlation[1].peak) THEN Text("nan")
        ELSE [state |-> "value", value |-> correlation[1]]]

MetricLabels(snr_db, mse, peak, thd, correlation) ==
    [snr |-> SnrLabel(snr_db),
     \* f"MSE: {(mse/100000):.3f}"
     mse |-> Number(mse, 1000, 100000),
     \* f"Peak Error: {peak_error/10:.2f} mV"
     peak_error |-> Number(peak[1], 100, 10),
     \* f"THD: {thd/10:.2f} %"
     thd |-> Number(thd, 100, 10),
     \* f"Correlation: {correlation:.3f}"
     correlation |->
        IF IsNaN(correlation[1].peak) THEN Text("nan")
        ELSE [state |-> "value", value |-> correlation[1]]]

\* the metrics of the compared samples
Metrics(ref_overlap, measured_resampled) ==
    MetricLabels(SnrDb(MeanSquare(ref_overlap),
                       MeanSquareError(ref_overlap, measured_resampled)),
                 MeanSquareError(ref_overlap, measured_resampled),
                 calculate_peak_error(ref_overlap, measured_resampled),
                 calculate_thd(ref_overlap, reference_sample_rate),
                 calculate_cross_correlation_metrics(ref_overlap, measured_resampled))

Compared(ref_overlap, measured_resampled) ==
    [state |-> "compared",
     ref_overlap |-> SubSeq(ref_overlap, 1, Min2(Len(ref_overlap), Len(measured_resampled))),
     measured_resampled |->
        SubSeq(measured_resampled, 1, Min2(Len(ref_overlap), Len(measured_resampled)))]
NotCompared(state) == [state |-> state, ref_overlap |-> <<>>, measured_resampled |-> <<>>]

\* the resampling: interp1d raises without a point to interpolate from
Resampled(ref_overlap, ref_time_overlap, measured_overlap, measured_time_overlap) ==
    IF Len(ref_overlap) # Len(measured_overlap)
    THEN IF measured_time_overlap = <<>> THEN NotCompared("Error")
         ELSE Compared(ref_overlap,
                       interp1d(measured_time_overlap, measured_overlap, ref_time_overlap))
    ELSE Compared(ref_overlap, measured_overlap)

InWindow(ref_signal, ref_time, measured_mv, measured_time, time_start, time_end) ==
    IF NoOverlap(time_start, time_end) THEN NotCompared("No overlap")
    ELSE Resampled(Masked(ref_signal, Mask(ref_time, time_start, time_end)),
                   Masked(ref_time, Mask(ref_time, time_start, time_end)),
                   Masked(measured_mv, Mask(measured_time, time_start, time_end)),
                   Masked(measured_time, Mask(measured_time, time_start, time_end)))

\* ref_time[0] and measured_time[0] raise on arrays without elements
Overlapping(ref_signal, ref_time, measured_mv, measured_time) ==
    IF ref_time = <<>> \/ measured_time = <<>> THEN NotCompared("Error")
    ELSE InWindow(ref_signal, ref_time, measured_mv, measured_time,
                  RMax2(ref_time[1], measured_time[1]),
                  RMin2(ref_time[Len(ref_time)], measured_time[Len(measured_time)]))

\* calculate_snr_mse up to the samples it compares
Comparison(v) ==
    IF v.reference_data = None \/ v.current_channel \notin DOMAIN v.measured_data
    THEN NotCompared("--")
    ELSE Overlapping(Val(v.reference_data)[v.current_channel + 1],
                     Val(v.time_reference),
                     Adjusted(v.measured_data[v.current_channel], v.scale,
                              v.signal_offset),
                     Shifted(v.time_measured[v.current_channel], v.time_offset))

LabelsOf(comparison) ==
    IF comparison.state = "compared"
    THEN Metrics(comparison.ref_overlap, comparison.measured_resampled)
    ELSE AllLabels(comparison.state)

calculate_snr_mse(v) == [v EXCEPT !.labels = LabelsOf(Comparison(v))]

(***************************************************************************)
(* update_plots, load_all_data and the slots                               *)
(***************************************************************************)
\* time_start = ref_time_visible[0] raises for a reference without samples
update_plots(v) ==
    IF v.reference_data = None THEN v
    ELSE IF v.current_channel \in DOMAIN v.measured_data /\ Val(v.time_reference) = <<>>
    THEN [v EXCEPT !.slot_exception = TRUE]
    ELSE calculate_snr_mse(v)

\* load_measured_csv: the 'Volt' column, the times from the measured rate
WithCsv(v, i, voltage) ==
    [v EXCEPT !.measured_data = DictSet(@, i, voltage),
              !.time_measured =
                  DictSet(@, i, Linspace(RNorm(Len(voltage), v.measured_sample_rate),
                                         Len(voltage)))]
\* the mock data of a channel without CSV file
MockSamples(v) ==
    (Len(Val(v.time_reference)) * v.measured_sample_rate) \div reference_sample_rate
WithMock(v, i) ==
    [v EXCEPT !.measured_data = DictSet(@, i, ZeroSignal(MockSamples(v))),
              !.time_measured =
                  DictSet(@, i, Linspace(Val(v.time_reference)[Len(Val(v.time_reference))],
                                         MockSamples(v)))]

\* for i in range(10); self.time_reference[-1] raises for a reference without
\* samples, and the except of load_all_data ends the load
RECURSIVE LoadChannels(_, _, _)
LoadChannels(v, csv, i) ==
    IF i = 10 THEN [update_plots(v) EXCEPT !.slot_exception = FALSE]
    ELSE IF i \in DOMAIN csv THEN LoadChannels(WithCsv(v, i, csv[i]), csv, i + 1)
    ELSE IF Val(v.time_reference) = <<>> THEN v
    ELSE LoadChannels(WithMock(v, i), csv, i + 1)

WithReference(v, loaded, num_samples) ==
    [v EXCEPT !.full_data = loaded.full_data,
              !.reference_data = loaded.reference_data,
              !.load_error = loaded.load_error,
              !.time_reference = Some(TimeReference(num_samples)),
              !.measured_data = <<>>,
              !.time_measured = <<>>]

\* load_reference_binary as the validator v runs it: adc_to_mv reads self.gain
\* and self.offset_voltage
ReferenceMv(v, raw_data) ==
    [i \in 1..Len(channel_binary_mapping) |->
        [k \in 1..NumSamples(raw_data) |->
            AdcToMvOf(Q(ParseChannel(raw_data, channel_binary_mapping[i] + 1)[k]),
                      v.gain, v.offset_voltage)]]
LoadReferenceOf(v, raw_data) ==
    [full_data |-> Some(ParseFrames(raw_data)),
     reference_data |-> Some(ReferenceMv(v, raw_data)),
     load_error |-> FALSE]

\* rev: None | Some(bytes of rev.bin); csv: the CSV files by channel
load_all_data(v, rev, csv) ==
    IF rev = None THEN v
    ELSE LoadChannels(WithReference(v, LoadReferenceOf(v, Val(rev)),
                                    NumSamples(Val(rev))),
                      csv, 0)

\* a gain slot that stores the value and reloads nothing, a variant to compare
\* against
UpdateGainWithoutReload(v, value, rev, csv) == [v EXCEPT !.gain = value]

update_gain(v, value, rev, csv) == load_all_data([v EXCEPT !.gain = value], rev, csv)
update_offset(v, value, rev, csv) ==
    load_all_data([v EXCEPT !.offset_voltage = value], rev, csv)

change_channel(v, index) == update_plots([v EXCEPT !.current_channel = index])
update_measured_sample_rate(v, value, rev, csv) ==
    load_all_data([v EXCEPT !.measured_sample_rate = value], rev, csv)
\* update_plots, then calculate_snr_mse once more unless update_plots raised
PlotsThenMetrics(plotted) ==
    IF plotted.slot_exception THEN plotted ELSE calculate_snr_mse(plotted)
update_time_offset(v, value) ==
    PlotsThenMetrics(update_plots([v EXCEPT !.time_offset = value]))

(***************************************************************************)
(* auto_align_signals                                                      *)
(***************************************************************************)
\* interp1d(x, y, kind='linear', bounds_error=False, fill_value=0)(x_new)
InterpFillZero(x, y, x_new) ==
    [k \in 1..Len(x_new) |->
        IF RLt(x_new[k], x[1]) \/ RGt(x_new[k], x[Len(x)]) THEN Q(0)
        ELSE IF Len(x) = 1 THEN NaN
        ELSE InterpAt(x, y, x_new[k])]

\* if len(measured_signal) != len(ref_signal): resample, else take it as it is
MeasuredResampled(v, ref_signal, measured_signal) ==
    IF Len(measured_signal) # Len(ref_signal)
    THEN InterpFillZero(v.time_measured[v.current_channel], measured_signal,
                        Val(v.time_reference))
    ELSE measured_signal

\* (a - np.mean(a)) / np.std(a): with np.std(a) = 0 every element is 0/0, nan.
\* Otherwise the quotient is the centered signal times 1/std > 0, in general
\* not a rational: the factor is left out, and every value derived from the
\* result is the true value times a positive factor.
ZNormalized(a) ==
    IF HasNaN(a) \/ RIsZero(Variance(a)) THEN [k \in 1..Len(a) |-> NaN]
    ELSE Centered(a, MeanOf(a))

\* scipy_signal.correlate(a, b, mode='same'): the middle Len(a) elements of the
\* full correlation; a nan in either signal makes every element nan
CorrelateSame(a, b) ==
    [i \in 1..Len(a) |->
        IF HasNaN(a) \/ HasNaN(b) THEN NaN
        ELSE CorrelateAt(a, b, (i - 1) + ((Len(b) - 1) \div 2) - (Len(b) - 1))]

\* lag = np.argmax(correlation) - len(correlation) // 2
LagOf(correlation) == ArgMax(correlation) - (Len(correlation) \div 2)

\* time_offset_spinbox.setValue(lag / self.reference_sample_rate): three
\* decimals, range -10 .. 10, and update_time_offset when the value changes
SetTimeOffsetValue(v, value) ==
    IF value # v.time_offset THEN update_time_offset(v, value) ELSE v
AlignedTo(v, lag) ==
    SetTimeOffsetValue(v, RoundScaled(RMul(RNorm(lag, reference_sample_rate), Q(1000)),
                                      1000))

\* what a run of auto_align_signals did: its outcome and its local values
AlignCall(outcome, ref_signal, measured_resampled, ref_norm, measured_norm, correlation) ==
    [op |-> "auto_align", outcome |-> outcome, ref_signal |-> ref_signal,
     measured_resampled |-> measured_resampled, ref_norm |-> ref_norm,
     measured_norm |-> measured_norm, correlation |-> correlation]
NoAlignCall(outcome) == AlignCall(outcome, <<>>, <<>>, <<>>, <<>>, <<>>)

AlignCorrelated(v, ref_signal, measured_resampled, ref_norm, measured_norm, correlation) ==
    [validator |-> AlignedTo(v, LagOf(correlation)),
     call |-> AlignCall("aligned", ref_signal, measured_resampled, ref_norm,
                        measured_norm, correlation)]
AlignNormalized(v, ref_signal, measured_resampled, ref_norm, measured_norm) ==
    AlignCorrelated(v, ref_signal, measured_resampled, ref_norm, measured_norm,
                    CorrelateSame(measured_norm, ref_norm))
AlignResampled(v, ref_signal, measured_resampled) ==
    AlignNormalized(v, ref_signal, measured_resampled, ZNormalized(ref_signal),
                    ZNormalized(measured_resampled))

\* interp1d of no measured sample raises, and so does np.argmax of the
\* correlation of a reference without samples: the except reports it
AlignRaises(ref_signal, measured_signal) ==
    \/ Len(ref_signal) = 0
    \/ Len(measured_signal) = 0

AlignSignals(v, ref_signal, measured_signal) ==
    IF AlignRaises(ref_signal, measured_signal)
    THEN [validator |-> v, call |-> NoAlignCall("raised")]
    ELSE AlignResampled(v, ref_signal,
                        MeasuredResampled(v, ref_signal, measured_signal))

auto_align_signals(v) ==
    IF v.reference_data = None \/ v.current_channel \notin DOMAIN v.measured_data
    THEN [validator |-> v, call |-> NoAlignCall("returned")]
    ELSE AlignSignals(v, Val(v.reference_data)[v.current_channel + 1],
                      v.measured_data[v.current_channel])

(***************************************************************************)
(* The 10-lead validator on a signal folder: constructed (which loads the  *)
(* folder), then driven through its slots.                                 *)
(***************************************************************************)
Validator ==
    [reference_data |-> reference_data, full_data |-> full_data,
     load_error |-> load_error, time_reference |-> time_reference,
     measured_data |-> measured_data, time_measured |-> time_measured,
     measured_sample_rate |-> measured_sample_rate,
     current_channel |-> current_channel, time_offset |-> time_offset,
     scale |-> scale, signal_offset |-> signal_offset, labels |-> labels,
     gain |-> validator_gain, offset_voltage |-> validator_offset_voltage,
     slot_exception |-> slot_exception]

IdleValidator ==
    [reference_data |-> None, full_data |-> None, load_error |-> FALSE,
     time_reference |-> None, measured_data |-> <<>>, time_measured |-> <<>>,
     measured_sample_rate |-> 1000, current_channel |-> 0, time_offset |-> Q(0),
     scale |-> Q(1), signal_offset |-> Q(0), labels |-> InitialLabels,
     gain |-> ValidatorGain, offset_voltage |-> offset_voltage,
     slot_exception |-> FALSE]

ValidatorFieldsAre(v) ==
    /\ reference_data = v.reference_data
    /\ full_data = v.full_data
    /\ load_error = v.load_error
    /\ time_reference = v.time_reference
    /\ measured_data = v.measured_data
    /\ time_measured = v.time_measured
    /\ measured_sample_rate = v.measured_sample_rate
    /\ current_channel = v.current_channel
    /\ time_offset = v.time_offset
    /\ scale = v.scale
    /\ signal_offset = v.signal_offset
    /\ labels = v.labels
    /\ validator_gain = v.gain
    /\ validator_offset_voltage = v.offset_voltage
    /\ slot_exception = v.slot_exception
ValidatorIs(result) == \E v \in {result} : ValidatorFieldsAre(v)

SetValidatorVars(v) ==
    /\ reference_data' = v.reference_data
    /\ full_data' = v.full_data
    /\ load_error' = v.load_error
    /\ time_reference' = v.time_reference
    /\ measured_data' = v.measured_data
    /\ time_measured' = v.time_measured
    /\ measured_sample_rate' = v.measured_sample_rate
    /\ current_channel' = v.current_channel
    /\ time_offset' = v.time_offset
    /\ scale' = v.scale
    /\ signal_offset' = v.signal_offset
    /\ labels' = v.labels
    /\ validator_gain' = v.gain
    /\ validator_offset_voltage' = v.offset_voltage
    /\ slot_exception' = v.slot_exception
SetValidatorFields(v) ==
    /\ SetValidatorVars(v)
    /\ UNCHANGED <<convVars, ret, rev_bin, csv_files>>
\* the slot has run once, and its result is stored
SetValidatorTo(result) == \E v \in {result} : SetValidatorFields(v)

MaxRefSamples == 2
MaxCsvSamples == 3

\* rev.bin: no file, or frames whose slots all hold code 2457 (0.33 mV at gain
\* 1000) or all code 0: constant files of either code, and files that start
\* with 2457 and go on with 0
RefFrame(code) == [c \in 1..max_channels |-> code]
RefArrays ==
    UNION { { [s \in 1..n |-> RefFrame(2457)], [s \in 1..n |-> RefFrame(0)],
              [s \in 1..n |-> RefFrame(IF s = 1 THEN 2457 ELSE 0)] } :
            n \in 0..MaxRefSamples }
RefFiles == {None} \cup { Some(WriteBinary(a)) : a \in RefArrays }

\* 'Volt' columns: 0.00033 V (0.33 mV) throughout, 0 V throughout, and
\* 0.00033 V followed by 0 V
CsvColumns ==
    UNION { { [k \in 1..n |-> RNorm(33, 100000)], [k \in 1..n |-> Q(0)],
              [k \in 1..n |-> IF k = 1 THEN RNorm(33, 100000) ELSE Q(0)] } :
            n \in 0..MaxCsvSamples }
\* RA.csv may be there with any column, or LA.csv with one column
CsvFolders ==
    {<<>>}
    \cup { [i \in {0} |-> column] : column \in CsvColumns }
    \cup { [i \in {1} |-> <<Q(0), RNorm(33, 100000)>>] }

MeasuredRates == {1000, 2000}
TimeOffsets == { Q(0), RNorm(1, 1000), Q(1) }
ScaleValues == { Q(1), Q(2) }
SignalOffsets == { Q(0), RNorm(1, 100) }
ChannelIndexes == {0, 1}

\* __init__ ends with load_all_data()
InitMetrics ==
    /\ ConvInit
    /\ ret = None
    /\ rev_bin \in RefFiles
    /\ csv_files \in CsvFolders
    /\ ValidatorIs(load_all_data(IdleValidator, rev_bin, csv_files))

\* time_offset_spinbox.valueChanged
UpdateTimeOffset ==
    /\ ~slot_exception
    /\ \E value \in TimeOffsets :
          /\ value # time_offset
          /\ SetValidatorTo(update_time_offset(Validator, value))

\* measured_rate_spinbox.valueChanged
UpdateMeasuredSampleRate ==
    /\ ~slot_exception
    /\ \E value \in MeasuredRates :
          /\ value # measured_sample_rate
          /\ SetValidatorTo(update_measured_sample_rate(Validator, value, rev_bin,
                                                        csv_files))

\* channel_combo.currentIndexChanged
ChangeChannel ==
    /\ ~slot_exception
    /\ \E index \in ChannelIndexes :
          /\ index # current_channel
          /\ SetValidatorTo(change_channel(Validator, index))

\* scale_spinbox.valueChanged, connected to update_plots
ChangeScale ==
    /\ ~slot_exception
    /\ \E value \in ScaleValues :
          /\ value # scale
          /\ SetValidatorTo(update_plots([Validator EXCEPT !.scale = value]))

\* signal_offset_spinbox.valueChanged, connected to update_plots
ChangeSignalOffset ==
    /\ ~slot_exception
    /\ \E value \in SignalOffsets :
          /\ value # signal_offset
          /\ SetValidatorTo(update_plots([Validator EXCEPT !.signal_offset = value]))

NextMetrics ==
    \/ UpdateTimeOffset
    \/ UpdateMeasuredSampleRate
    \/ ChangeChannel
    \/ ChangeScale
    \/ ChangeSignalOffset

SpecMetrics == InitMetrics /\ [][NextMetrics]_vars


(***************************************************************************)
(* Properties of the validator's metrics, checked under SpecMetrics.       *)
(***************************************************************************)
\* both time arrays of the current channel have a first and a last element
WindowDefined ==
    /\ reference_data # None
    /\ current_channel \in DOMAIN measured_data
    /\ time_reference # None
    /\ Val(time_reference) # <<>>
    /\ time_measured[current_channel] # <<>>
RefStart == Val(time_reference)[1]
RefEnd == Val(time_reference)[Len(Val(time_reference))]
MeasStart == time_measured[current_channel][1]
MeasEnd == time_measured[current_channel][Len(time_measured[current_channel])]
WindowStart == RMax2(RefStart, RAdd(MeasStart, time_offset))
WindowEnd == RMin2(RefEnd, RAdd(MeasEnd, time_offset))
LabelStates ==
    { labels.snr.state, labels.mse.state, labels.peak_error.state, labels.thd.state,
      labels.correlation.state }

\* C16: no-overlap sentinel. Whenever the window [max(refStart, measStart +
\* timeOffset), min(refEnd, measEnd + timeOffset)] is empty (start >= end),
\* each of the five metrics shows "No overlap", none a number, and no
\* exception has left the slot.
C16_NoOverlapSentinel ==
    (WindowDefined /\ RLe(WindowEnd, WindowStart)) =>
        /\ LabelStates = {"No overlap"}
        /\ ~slot_exception

\* a reference of two samples against RA.csv shifted by a second
C16_Witness ==
    /\ WindowDefined
    /\ Len(Val(time_reference)) = 2
    /\ current_channel = 0
    /\ 0 \in DOMAIN csv_files
    /\ time_offset = Q(1)
    /\ RLt(WindowEnd, WindowStart)
    /\ LabelStates = {"No overlap"}

\* the samples the last calculation compared
ComparedNow == Comparison(Validator)
SamplesCompared ==
    /\ ~slot_exception
    /\ ComparedNow.state = "compared"
    /\ ComparedNow.ref_overlap # <<>>

\* C17: SNR boundary. When reference and adjusted measured signal are equal at
\* every compared sample (at least one: the difference's RMS is 0), the SNR
\* label shows infinity and the MSE label 0.
C17_SnrBoundary ==
    \A compared \in {ComparedNow} :
        (/\ ~slot_exception
         /\ compared.state = "compared"
         /\ compared.ref_overlap # <<>>
         /\ compared.ref_overlap = compared.measured_resampled) =>
            /\ labels.snr.state = "infinity"
            /\ labels.mse = [state |-> "value", value |-> Q(0)]

\* a reference of 0.33 mV against RA.csv with 0.00033 V throughout, after the
\* measured rate was set to 2000 Hz and the scale to 2 and back
C17_Witness ==
    /\ SamplesCompared
    /\ measured_sample_rate = 2000
    /\ scale = Q(1)
    /\ ComparedNow.ref_overlap = <<RNorm(33, 100)>>
    /\ ComparedNow.measured_resampled = <<RNorm(33, 100)>>
    /\ 0 \in DOMAIN csv_files
    /\ current_channel = 0
    /\ labels.snr.state = "infinity"
    /\ labels.mse = [state |-> "value", value |-> Q(0)]

\* C18: metric failure isolation. When the computation of a metric fails (here
\* the peak error: np.max of no samples raises), that metric shows the error
\* sentinel, and no exception has left the slot.
C18_FailureIsolation ==
    \A compared \in {ComparedNow} :
        (/\ ~slot_exception
         /\ compared.state = "compared"
         /\ PeakErrorRaises(compared.ref_overlap, compared.measured_resampled)) =>
            labels.peak_error.state = "Error"


(***************************************************************************)
(* Properties of update_trim, checked under Spec on the steps that run it. *)
(***************************************************************************)
\* the step is the user setting the end spin box to v
EndRequested(v) ==
    /\ v # end_spinbox.value
    /\ v <= end_spinbox.maximum
    /\ record' = record
    /\ start_spinbox' = start_spinbox
    /\ \E s \in {SetEndValue(Self, v)} :
          /\ end_spinbox' = s.end_spinbox
          /\ trim_end' = s.trim_end
          /\ signal_trimmed' = s.signal_trimmed
\* the step is the user setting the start spin box; update_trim finds the end
\* spin box as it was
StartRequested ==
    /\ record' = record
    /\ start_spinbox'.value # start_spinbox.value

\* the end the claim describes for a requested end v and the start the step leaves
EndAsStated(v) ==
    /\ trim_start' < trim_end'
    /\ v <= trim_start' => trim_end' = trim_start' + TrimStep

\* C21: trim window validity. After every run of update_trim with a record
\* loaded trim_start < trim_end, and when the requested end is less than or
\* equal to the start, the end is start + 0.1 s.
C21_TrimWindow ==
    [][ /\ signal' # None => trim_start' < trim_end'
        /\ signal # None =>
              /\ StartRequested => EndAsStated(end_spinbox.value)
              /\ \A v \in TrimValues : EndRequested(v) => EndAsStated(v) ]_vars


(***************************************************************************)
(* The 10-lead validator's ESP32 parameters and its Auto Align button:     *)
(* constructed on a signal folder, then the gain and offset spin boxes are *)
(* changed and the button is pressed.                                      *)
(***************************************************************************)
GainSettings == {500, 1000, 2000}
OffsetSettings == { Q(0), offset_voltage, RNorm(198, 100) }
\* no CSV file, or RA.csv with two or three samples of 0 V and 0.001 V
ControlFolders ==
    { <<>>, [i \in {0} |-> <<RNorm(1, 1000), Q(0)>>],
      [i \in {0} |-> <<Q(0), RNorm(1, 1000), Q(0)>>] }

InitControls ==
    /\ ConvInit
    /\ ret = None
    /\ rev_bin \in RefFiles
    /\ csv_files \in ControlFolders
    /\ ValidatorIs(load_all_data(IdleValidator, rev_bin, csv_files))

\* gain_spinbox.valueChanged
UpdateGain ==
    /\ ~slot_exception
    /\ \E value \in GainSettings :
          /\ value # validator_gain
          /\ SetValidatorTo(update_gain(Validator, value, rev_bin, csv_files))

\* offset_spinbox.valueChanged
UpdateOffset ==
    /\ ~slot_exception
    /\ \E value \in OffsetSettings :
          /\ value # validator_offset_voltage
          /\ SetValidatorTo(update_offset(Validator, value, rev_bin, csv_files))

\* auto_align_button.clicked
AutoAlign ==
    /\ ~slot_exception
    /\ \E aligned \in {auto_align_signals(Validator)} :
          /\ SetValidatorVars(aligned.validator)
          /\ ret' = Some(aligned.call)
    /\ UNCHANGED <<convVars, rev_bin, csv_files>>

NextControls ==
    \/ UpdateGain
    \/ UpdateOffset
    \/ AutoAlign

SpecControls == InitControls /\ [][NextControls]_vars

(***************************************************************************)
(* Properties of the reload, checked under SpecControls.                   *)
(***************************************************************************)
\* (code * vcc / resolution - offsetVoltage) * 1000 / gain
MvOfCode(code, offsetVoltage, g) ==
    RDiv(RMul(RSub(RDiv(RMul(Q(code), vcc), Q(adc_resolution)), offsetVoltage),
              Q(1000)),
         Q(g))

\* C22: full recomputation on a parameter change. After any sequence of gain
\* and offset changes the reference signal of every electrode is the file's
\* codes converted with the current gain and offset.
C22_FullRecomputation ==
    rev_bin # None =>
        /\ reference_data # None
        /\ \A i \in 1..Len(channel_binary_mapping) :
              /\ Len(Val(reference_data)[i]) = NumSamples(Val(rev_bin))
              /\ \A k \in 1..NumSamples(Val(rev_bin)) :
                    Val(reference_data)[i][k]
                        = MvOfCode(CodeAt(Val(rev_bin), k - 1,
                                          channel_binary_mapping[i]),
                                   validator_offset_voltage, validator_gain)

\* gain and offset both changed, on a file of codes 2457 and 0: 0 mV and -0.99 mV
C22_Witness ==
    /\ rev_bin # None
    /\ validator_gain = 2000
    /\ validator_offset_voltage = RNorm(198, 100)
    /\ reference_data # None
    /\ Val(reference_data)[1] = <<Q(0), RNorm(-99, 100)>>


\* the last press of Auto Align went through to the correlation
Aligned ==
    /\ ret # None
    /\ Val(ret).op = "auto_align"
    /\ Val(ret).outcome = "aligned"
\* a signal of equal samples: its standard deviation is 0
ZeroVariance(a) == a # <<>> /\ ~HasNaN(a) /\ \A k \in 1..Len(a) : a[k] = a[1]

\* C23: zero-variance guard of the aligner. When the reference or the measured
\* signal is constant, the normalized signals and their correlation hold no
\* value that comes from a division by zero (the signals themselves being
\* free of nan).
C23_ZeroVarianceGuard ==
    (/\ Aligned
     /\ ~HasNaN(Val(ret).ref_signal)
     /\ ~HasNaN(Val(ret).measured_resampled)
     /\ \/ ZeroVariance(Val(ret).ref_signal)
        \/ ZeroVariance(Val(ret).measured_resampled)) =>
        /\ ~HasNaN(Val(ret).ref_norm)
        /\ ~HasNaN(Val(ret).measured_norm)
        /\ ~HasNaN(Val(ret).correlation)


(***************************************************************************)
(* Properties of the resampling, checked under SpecMetrics.                *)
(***************************************************************************)
\* the samples and timestamps of both signals inside the overlap window
InWindowNow(a, times) == Masked(a, Mask(times, WindowStart, WindowEnd))
MeasuredTimeNow == Shifted(time_measured[current_channel], time_offset)
RefTimeOverlap == InWindowNow(Val(time_reference), Val(time_reference))
RefOverlap ==
    InWindowNow(Val(reference_data)[current_channel + 1], Val(time_reference))
MeasuredTimeOverlap == InWindowNow(MeasuredTimeNow, MeasuredTimeNow)
MeasuredOverlap ==
    InWindowNow(Adjusted(measured_data[current_channel], scale, signal_offset),
                MeasuredTimeNow)

\* the measured signal at the reference's timestamps: its own samples where
\* the timestamps inside the window are the same, else the linear interpolation
MeasuredAtRefTimes ==
    IF MeasuredTimeOverlap = RefTimeOverlap THEN MeasuredOverlap
    ELSE interp1d(MeasuredTimeOverlap, MeasuredOverlap, RefTimeOverlap)

\* C24: resampling condition. Whenever samples are compared and the two
\* signals' timestamps differ inside the overlap window, the measured samples
\* compared are the linear interpolation at the reference's timestamps, so
\* that the samples of a pair belong to the same instant, and both signals are
\* cut to the smaller of the two lengths.
C24_ResamplingCondition ==
    \A compared \in {ComparedNow} :
        (/\ ~slot_exception
         /\ WindowDefined
         /\ compared.state = "compared"
         /\ MeasuredTimeOverlap # <<>>) =>
            /\ Len(compared.ref_overlap) = Len(compared.measured_resampled)
            /\ compared.ref_overlap
                  = SubSeq(RefOverlap, 1, Len(compared.ref_overlap))
            /\ compared.measured_resampled
                  = SubSeq(MeasuredAtRefTimes, 1, Len(compared.ref_overlap))
            /\ Len(compared.ref_overlap)
                  = Min2(Len(RefOverlap), Len(MeasuredAtRefTimes))


(***************************************************************************)
(* Properties of the THD label, checked under SpecMetrics.                 *)
(***************************************************************************)
\* the labels on display are those of a calculation on the current settings
LabelsCurrent == ~slot_exception /\ labels = LabelsOf(ComparedNow)

\* the validator with other measured sample values (the same number of
\* samples at the same times), another scale and another voltage offset
OtherMeasured(samples, scale_value, v_offset) ==
    [Validator EXCEPT !.measured_data = samples, !.scale = scale_value,
                      !.signal_offset = v_offset]
MeasuredAllZero ==
    [i \in DOMAIN measured_data |-> ZeroSignal(Len(measured_data[i]))]

CurrentElectrodes == Electrodes(map_channels_to_standard(Self))
TenLeadLoaded == ecg_mode = "10-lead" /\ signal # None
\* the frames a 10-lead conversion of the current window has to write
CurrentFrames ==
    WriteBinary(Encode10(CurrentElectrodes, gain, 1,
                         EncodeStart(Len(Val(signal_trimmed)))).adc_signal)

\* the stored electrodes are those of the current record and trim window
ElectrodesCurrent ==
    TenLeadLoaded =>
        /\ signal_trimmed # None
        /\ electrode_data = Some(CurrentElectrodes)
        /\ Len(Val(electrode_data)) = Len(Val(signal_trimmed))

\* C26: electrode data is never stale. In every reachable state in which the
\* converter is in 10-lead mode with a record loaded, the stored electrode data
\* are the synthesis of the mapped, currently trimmed signal, with one row per
\* trimmed sample; and a 10-lead conversion writes the frames of exactly those
\* electrodes.
C26_ElectrodesNeverStale ==
    /\ []ElectrodesCurrent
    /\ [][ (Converts /\ TenLeadLoaded) => output_file' = Some(CurrentFrames) ]_vars

\* the twelve-lead record in 10-lead mode, trimmed to its second sample and
\* converted: one frame, whose RA is -(0.5 + 1.0)/3 = -0.5 mV
C26_Witness ==
    /\ TenLeadLoaded
    /\ Val(record).record_name = "twelve"
    /\ trim_start = 10
    /\ Len(Val(signal_trimmed)) = 1
    /\ Val(electrode_data) = Electrodes(<<RecordTwelve.p_signal[2]>>)
    /\ Val(electrode_data)[1][1] = F(-1, 2)
    /\ conversion # None
    /\ Val(conversion).mode = "10-lead"
    /\ Len(Val(output_file)) = 24
    /\ CodeAt(Val(output_file), 0, 0) = CodeOf(F(-1, 2), gain)


(***************************************************************************)
(* Einthoven's relations on the synthesised electrodes.                    *)
(***************************************************************************)
\* values a source Lead III may take instead of the one it has
OtherLeadIII == {Q(0), F(1, 2), F(-7, 1)}

\* C27: Einthoven consistency. In every row of the electrode data synthesised
\* by convert_to_10lead, LA - RA is Lead I, LL - RA is Lead II and
\* RA + LA + LL is 0, and the row is the same for any other Lead III.
C27_Einthoven ==
    TenLeadData =>
        \A k \in 1..Len(Val(electrode_data)) :
            LET m == map_channels_to_standard(Self)[k]
                e == Val(electrode_data)[k]
            IN  /\ RSub(e[2], e[1]) = m[1]
                /\ RSub(e[3], e[1]) = m[2]
                /\ RAdd(RAdd(e[1], e[2]), e[3]) = Q(0)
                /\ \A x \in OtherLeadIII : ElectrodeRow([m EXCEPT ![3] = x]) = e

\* the record whose Lead III (1.0) disagrees with II - I = 1.5 - 0 in the first
\* sample: RA = -1/2, LA = -1/2, LL = 1 mV
C27_Witness ==
    /\ TenLeadData
    /\ Val(record).record_name = "odd"
    /\ Len(Val(electrode_data)) = 2
    /\ map_channels_to_standard(Self)[1][3] = Q(1)
    /\ map_channels_to_standard(Self)[1][3]
          # RSub(map_channels_to_standard(Self)[1][2], map_channels_to_standard(Self)[1][1])
    /\ Val(electrode_data)[1][1] = F(-1, 2)
    /\ Val(electrode_data)[1][2] = F(-1, 2)
    /\ Val(electrode_data)[1][3] = Q(1)


(***************************************************************************)
(* The converter and the 10-lead validator on one file: the file of a      *)
(* 10-lead conversion is put into the signal folder as rev.bin and the     *)
(* validator loads it. The converter is used until the file is handed over.*)
(***************************************************************************)
ConverterStep ==
    /\ rev_bin = None
    /\ Next

\* the file the last conversion wrote, a 10-lead one, becomes rev.bin
PlaceOutputFile ==
    /\ rev_bin = None
    /\ conversion # None
    /\ Val(conversion).mode = "10-lead"
    /\ output_file # None
    /\ rev_bin' = output_file
    /\ UNCHANGED <<convVars, ret, reference_data, full_data, load_error, metricVars>>

NextRoundTrip ==
    \/ ConverterStep
    \/ PlaceOutputFile
    \/ LoadReference10

SpecRoundTrip == Init /\ [][NextRoundTrip]_vars

\* the codes the validator's loader picks for electrode k (0..9) of a file
LoadedCodes(raw_data, k) == ParseChannel(raw_data, channel_binary_mapping[k + 1] + 1)
\* the codes the converter's encoder yields for electrode k of the electrode data
WrittenCodes(k) ==
    [s \in 1..Len(Val(electrode_data)) |-> CodeOf(Val(electrode_data)[s][k + 1], gain)]
\* the frame position the validator reads electrode k from
SlotOfElectrode(k) == <<0, 1, 2, 3, 6, 7, 8, 9, 10, 11>>[k + 1]

\* C28: cross-tool 10-lead round trip. Of a file written by a 10-lead
\* conversion the validator's loader picks, for each electrode k in 0..9,
\* exactly the codes the converter has written for electrode k, which are those
\* of frame position [0,1,2,3,6,7,8,9,10,11][k]; the loaded reference signal is
\* the conversion of these codes to mV, and positions 4 and 5 are in no
\* electrode of it.
C28_CrossToolRoundTrip ==
    /\ [][ (Converts /\ ecg_mode = "10-lead") =>
              \A k \in 0..9 :
                  /\ LoadedCodes(Val(output_file'), k) = WrittenCodes(k)
                  /\ LoadedCodes(Val(output_file'), k)
                        = [s \in 1..Len(Val(electrode_data)) |->
                              CodeAt(Val(output_file'), s - 1, SlotOfElectrode(k))] ]_vars
    /\ [](reference_data # None =>
              /\ rev_bin = output_file
              /\ Len(Val(reference_data)) = 10
              /\ \A k \in 0..9 :
                    Val(reference_data)[k + 1]
                        = ChannelToMv(LoadedCodes(Val(output_file), k)))

\* the twelve-lead record, whole, converted in 10-lead mode at gain 1000 and
\* loaded by the validator: RA = -0.4 mV was written as code 1551 and V1 =
\* -0.2 mV as code 1799, the padding as 0
C28_Witness ==
    /\ reference_data # None
    /\ Val(record).record_name = "twelve"
    /\ Len(Val(output_file)) = 48
    /\ CodeAt(Val(output_file), 0, 4) = 0
    /\ CodeAt(Val(output_file), 0, 5) = 0
    /\ Val(full_data)[5] = <<0, 0>>
    /\ Len(Val(reference_data)) = 10
    /\ Val(reference_data)[1][1] = adc_to_mv(Q(1551), ValidatorGain)
    /\ Val(reference_data)[5][1] = adc_to_mv(Q(1799), ValidatorGain)


(***************************************************************************)
(* Channels without signal in the two modes of the conversion.             *)
(***************************************************************************)
\* the code of 0 mV under gain g: the offset voltage on the ADC's scale
OffsetCode(g) == RTrunc(Clip(AdcValue(Q(0), g)))
\* the clipping warning the encoder gives for one column, if it gives one
ColumnClips(col, g) ==
    ClippedLow(AdcValues(col, g)) > 0 \/ ClippedHigh(AdcValues(col, g)) > 0
ColumnWarning(col, g) ==
    ClippingWarning(ClippedLow(AdcValues(col, g)), ClippedHigh(AdcValues(col, g)))
\* the mapped channels (1..12) of the state that have a sample and are all zero
ZeroChannels ==
    {i \in 1..12 : /\ map_channels_to_standard(Self) # <<>>
                   /\ AllZero(Column(map_channels_to_standard(Self), i))}

\* C29: empty channels bypass the encoder in 12-lead mode. A 12-lead conversion
\* writes code 0 at every sample of a mapped channel that is all zero, not the
\* code of 0 mV, and every clipping warning it leaves comes from a channel that
\* is not all zero; a 10-lead conversion writes the all-zero RL electrode as
\* the code of 0 mV, which is not 0.
C29_EmptyChannelBypass ==
    [][ /\ (Converts /\ ecg_mode = "12-lead") =>
              /\ \A i \in ZeroChannels :
                    \A s \in 0..(Len(Val(signal_trimmed)) - 1) :
                        /\ CodeAt(Val(output_file'), s, i - 1) = 0
                        /\ CodeAt(Val(output_file'), s, i - 1) # OffsetCode(gain)
              /\ \A w \in Range(clipping_warnings') :
                    \E i \in (1..12) \ ZeroChannels :
                        /\ ColumnClips(Column(map_channels_to_standard(Self), i), gain)
                        /\ w = ColumnWarning(Column(map_channels_to_standard(Self), i),
                                             gain)
        /\ (Converts /\ ecg_mode = "10-lead") =>
              \A s \in 0..(Len(Val(electrode_data)) - 1) :
                  /\ Val(electrode_data)[s + 1][4] = Q(0)
                  /\ CodeAt(Val(output_file'), s, 3) = OffsetCode(gain)
                  /\ CodeAt(Val(output_file'), s, 3) # 0 ]_vars

\* the record with large amplitudes converted in 12-lead mode at gain 1000:
\* Lead I (10 mV and 0.1 mV) clips once high, the all-zero V1 and the slots
\* without a source are written as 0
C29_Witness ==
    /\ conversion # None
    /\ Val(conversion).mode = "12-lead"
    /\ ecg_mode = "12-lead"
    /\ Val(record).record_name = "big"
    /\ gain = 1000
    /\ Len(Val(signal_trimmed)) = 2
    /\ Len(Val(output_file)) = 48
    /\ 7 \in ZeroChannels
    /\ CodeAt(Val(output_file), 0, 6) = 0
    /\ CodeAt(Val(output_file), 1, 6) = 0
    /\ CodeAt(Val(output_file), 0, 0) = 4095
    /\ HasClippingWarning(clipping_warnings)
    /\ OffsetCode(gain) = 2047


(***************************************************************************)
(* Several source channels for one target slot, checked under SpecMap.     *)
(***************************************************************************)
\* the sources of the call whose name matches slot j, in channel order
MatchingSources(j) == {i \in Sources : NameMatches(Val(ret).sig_name[i], j)}
LastOf(S) == CHOOSE i \in S : \A i2 \in S : i2 <= i

\* C30: duplicate source matches. When two or more source channels match the
\* same target slot, the slot holds the data of the one that comes last in the
\* record's channel order, and the data of the earlier ones are in no slot.
C30_DuplicateMatches ==
    Mapped =>
        \A j \in 1..12 :
            Cardinality(MatchingSources(j)) >= 2 =>
                /\ TargetColumn(j) = SourceColumn(LastOf(MatchingSources(j)))
                /\ \A i \in MatchingSources(j) \ {LastOf(MatchingSources(j))} :
                      \A j2 \in 1..12 : TargetColumn(j2) # SourceColumn(i)

\* 'II' followed by 'MLII': slot II holds the second channel (21 and 22 mV), the
\* first channel (11 and 12 mV) is in no slot
C30_Witness ==
    /\ Mapped
    /\ Val(ret).sig_name = << <<"I","I">>, <<"M","L","I","I">> >>
    /\ MatchingSources(2) = {1, 2}
    /\ TargetColumn(2) = <<Q(21), Q(22)>>
    /\ SourceColumn(1) = <<Q(11), Q(12)>>
    /\ \A j \in 1..12 : TargetColumn(j) # SourceColumn(1)

=============================================================================
